---- MODULE Spec2Model ----
(***************************************************************************)
(* Model of backend/ai_generator.py: AIGenerator.generate_response and     *)
(* AIGenerator._execute_tool_round, the bounded tool-use loop between the  *)
(* generation backend (client.messages.create) and the tool manager        *)
(* (tool_manager.execute_tool).  One generate_response invocation is       *)
(* followed statement by statement; the backend and the tools are the      *)
(* environment and answer every call with any value of their domain or by  *)
(* raising.                                                                *)
(*                                                                         *)
(* The tool manager (ToolManager), the search and outline tools and the    *)
(* caller of generate_response are known through their tests and their     *)
(* description only; their definitions below follow the description.       *)
(***************************************************************************)
EXTENDS Integers, Sequences, FiniteSets, TLC

(* ------------------------------ bounds --------------------------------- *)

\* Longest content list (text and tool_use blocks) of one backend response.
MaxBlocks == 2

\* Cap on the backend calls the environment answers in one invocation; the
\* loop of generate_response stays below it.
MaxCalls == 4

(* ------------------------- program constants --------------------------- *)

MAX_TOOL_ROUNDS == 2

SYSTEM_PROMPT == "SYSTEM_PROMPT"

\* The string returned when the final response holds no text block.
FALLBACK == "I'm sorry, I wasn't able to generate a response. Please try again."

\* self.base_params built once in __init__.
base_params == [model |-> "model", temperature |-> 0, max_tokens |-> 800]

(* ----------------------- values of the environment --------------------- *)

\* Python's None for an optional string or list argument is the record with
\* none = TRUE; a supplied value has none = FALSE and carries the value.
NoneStr == [none |-> TRUE, val |-> ""]
SomeStr(s) == [none |-> FALSE, val |-> s]
NoneList == [none |-> TRUE, val |-> <<>>]
SomeList(l) == [none |-> FALSE, val |-> l]

\* Python truthiness of an Optional[str] / Optional[List]: None and the
\* empty value are falsy.
Truthy(x) == (~x.none) /\ Len(x.val) > 0

Queries == {"What is Python?"}
Histories == {NoneStr, SomeStr("User: hi")}
ToolArgs == {NoneList, SomeList(<<>>), SomeList(<<"search_course_content">>)}

Texts == {"", "Hello!"}
ToolNames == {"search_course_content"}
ToolInputs == {[query |-> "a"]}
StopReasons == {"tool_use", "end_turn"}

\* The backend gives every tool_use block an id of its own: the block at
\* position i of the response to call k has the id <<k, i>>.
ToolId(k, i) == <<k, i>>

TextBlocks == {[type |-> "text", text |-> t] : t \in Texts}
ToolUseBlocks(k, i) ==
    {[type |-> "tool_use", id |-> ToolId(k, i), name |-> n, input |-> a] :
        n \in ToolNames, a \in ToolInputs}
Blocks(k, i) == TextBlocks \cup ToolUseBlocks(k, i)

\* The content lists of n blocks the backend can return to call k.
RECURSIVE ContentsOfLen(_, _)
ContentsOfLen(k, n) ==
    IF n = 0 THEN {<<>>}
    ELSE {Append(c, b) : c \in ContentsOfLen(k, n - 1), b \in Blocks(k, n)}

Contents(k) == UNION {ContentsOfLen(k, n) : n \in 0..MaxBlocks}

\* The responses the backend can return to call k.
ResponseTable ==
    [k \in 1..MaxCalls |-> [stop_reason : StopReasons, content : Contents(k)]]
Responses(k) == IF k \in DOMAIN ResponseTable THEN ResponseTable[k] ELSE {}

\* What tool_manager.execute_tool returns, and the exceptions it or the
\* backend raise (str(e) of the exception).
ToolOutputs == {"results"}
ToolErrors == {"Connection timeout"}

\* str(e) of what execute_tool raises when it is not an Exception but
\* another BaseException (KeyboardInterrupt, SystemExit, GeneratorExit).
ToolInterrupts == {"Connection timeout", "interrupted"}
BackendErrors == {"401 Unauthorized"}

NoResponse == [stop_reason |-> "none", content |-> <<>>]

\* What a messages.create call answered: a response, or an exception.
Answered(resp) == [raised |-> FALSE, exc |-> "", resp |-> resp]
Failed(e) == [raised |-> TRUE, exc |-> e, resp |-> NoResponse]

\* How a generate_response invocation ended.
Pending == [kind |-> "pending", value |-> ""]
Returned(s) == [kind |-> "return", value |-> s]
Raised(e) == [kind |-> "raise", value |-> e]

(* ------------------------------- state --------------------------------- *)

VARIABLES
    pc,             \* position in generate_response / _execute_tool_round
    query,          \* argument query
    history,        \* argument conversation_history
    tools,          \* argument tools
    tool_manager,   \* argument tool_manager (TRUE: one was supplied)
    system_content, \* local system_content
    messages,       \* local messages
    response,       \* local response
    round,          \* loop variable round
    tool_error,     \* local tool_error
    idx,            \* position of _execute_tool_round in response.content
    tool_results,   \* local tool_results of _execute_tool_round
    calls,          \* the keyword arguments of every messages.create call
    replies,        \* what every messages.create call answered, in order
    execs,          \* every tool_manager.execute_tool call, in order
    nrounds,        \* number of _execute_tool_round calls
    outcome         \* how the invocation ended

\* The tool manager and its tools.
VARIABLES
    tool_registry,  \* ToolManager.tools: registered tools, in insertion order
    last_sources,   \* last_sources of every tool instance
    dlog            \* the calls made on the tool manager, in order

gvars == <<pc, query, history, tools, tool_manager, system_content, messages,
           response, round, tool_error, idx, tool_results, calls, replies,
           execs, nrounds, outcome>>

dvars == <<tool_registry, last_sources, dlog>>

\* Queries in flight on shared or private tool managers, and concurrent
\* generate_response invocations on one AIGenerator.
VARIABLES
    sessions,         \* every query of the caller: position, tool manager, citations
    managers,         \* the source lists of every tool manager of the caller
    frames,           \* the locals of every concurrent generate_response invocation
    self_base_params  \* the attribute self.base_params of the AIGenerator

xvars == <<sessions, managers, frames, self_base_params>>

vars == <<gvars, dvars, xvars>>

args == <<query, history, tools, tool_manager>>
logs == <<calls, replies, execs, nrounds>>

(* --------------------- the tool manager and its tools ------------------ *)

\* Cap on the calls made on one tool manager.
MaxOps == 4

\* Longest documents list of one SearchResults.
MaxDocs == 2

\* Texts are kept as the sequence of their parts; a number is turned into
\* its decimal text.
ToStr(n) ==
    CASE n = 0 -> "0" [] n = 1 -> "1" [] n = 2 -> "2" [] n = 3 -> "3"
      [] n = 4 -> "4" [] n = 5 -> "5" [] n = 6 -> "6" [] n = 7 -> "7"
      [] n = 8 -> "8" [] n = 9 -> "9"

NoneInt == [none |-> TRUE, val |-> 0]
SomeInt(n) == [none |-> FALSE, val |-> n]

\* The tool instances: two search tools (both declare the name
\* search_course_content) and one outline tool.
ToolInstances == {"search1", "search2", "outline"}

ToolKind(c) == IF c = "outline" THEN "outline" ELSE "search"

\* The name a tool declares in its definition.
DeclaredName(c) ==
    IF ToolKind(c) = "outline" THEN "get_course_outline"
    ELSE "search_course_content"

\* get_tool_definition(): name, description and input schema of a tool.
GetToolDefinition(c) ==
    [name |-> DeclaredName(c),
     description |-> <<"definition of ", c>>,
     input_schema |-> [type |-> "object",
                       properties |-> IF ToolKind(c) = "outline"
                                      THEN <<"course_name">>
                                      ELSE <<"query", "course_name", "lesson_number">>]]

\* The names execute_tool is called with.
RequestedNames == {"search_course_content", "get_course_outline", "nonexistent_tool"}

\* Position of name in the registry, 0 when it is not registered.
IndexOfName(reg, name) ==
    LET S == {i \in 1..Len(reg) : reg[i].name = name} IN
    IF S = {} THEN 0 ELSE CHOOSE i \in S : \A k \in S : i <= k

IsRegistered(reg, c) == \E i \in 1..Len(reg) : reg[i].tool = c

\* Variant: a re-registered name is stored as one more entry.
RegisterToolAppends(reg, c) ==
    Append(reg, [name |-> DeclaredName(c), tool |-> c])

\* register_tool(tool): the tool is stored under its declared name; a name
\* registered before keeps its place and gets the new tool.
RegisterTool(reg, c) ==
    LET i == IndexOfName(reg, DeclaredName(c)) IN
    IF i = 0 THEN Append(reg, [name |-> DeclaredName(c), tool |-> c])
    ELSE [reg EXCEPT ![i] = [name |-> DeclaredName(c), tool |-> c]]

\* get_tool_definitions(): one definition per registered tool, in order.
GetToolDefinitions(reg) ==
    [i \in 1..Len(reg) |-> GetToolDefinition(reg[i].tool)]

\* Variant: an unknown name raises.
NotFoundRaises(name) ==
    [raised |-> TRUE, result |-> <<"KeyError: ", name>>]

\* execute_tool(name) for a name that is not registered: the string
\* Tool '<name>' not found is returned.
NotFound(name) ==
    [raised |-> FALSE, result |-> <<"Tool '", name, "' not found">>]

\* The source list of a tool: the citations (list) and when they were
\* written (at: 0 never, otherwise the rank of the write among all writes).
NoSources == [list |-> <<>>, at |-> 0]

\* The rank of the next write.
NextStamp(srcs) ==
    1 + (CHOOSE n \in {srcs[c].at : c \in DOMAIN srcs} :
            \A c \in DOMAIN srcs : srcs[c].at <= n)

\* get_last_sources(): the citations of the registered tool that wrote its
\* source list most recently, the empty list when no registered tool holds
\* citations.
GetLastSources(reg, srcs) ==
    LET H == {i \in 1..Len(reg) : Len(srcs[reg[i].tool].list) > 0} IN
    IF H = {} THEN <<>>
    ELSE LET i == CHOOSE i \in H :
                    \A k \in H : srcs[reg[k].tool].at <= srcs[reg[i].tool].at
         IN srcs[reg[i].tool].list

\* Variant: only the first registered tool is cleared.
ResetFirstOnly(reg, srcs) ==
    [c \in DOMAIN srcs |->
        IF Len(reg) > 0 /\ reg[1].tool = c THEN NoSources ELSE srcs[c]]

\* reset_sources(): the source list of every registered tool is emptied.
ResetSources(reg, srcs) ==
    [c \in DOMAIN srcs |-> IF IsRegistered(reg, c) THEN NoSources ELSE srcs[c]]

(* ----------------------------- search tool ----------------------------- *)

Documents == {"doc A", "doc B"}
CourseTitles == {NoneStr, SomeStr("Intro")}
LessonNumbers == {NoneInt, SomeInt(1), SomeInt(2)}
Metadata == [course_title : CourseTitles, lesson_number : LessonNumbers]
SearchErrors == {NoneStr, SomeStr("No course found matching 'NonExistent'")}

\* SearchResults with n documents: documents, metadata and distances have
\* the same length, and a result with an error is SearchResults.empty(error).
SearchResultsOfLen(n) ==
    [documents : [1..n -> Documents], metadata : [1..n -> Metadata],
     distances : {[i \in 1..n |-> i]},
     error : IF n = 0 THEN SearchErrors ELSE {NoneStr}]

SearchResultSets == UNION {SearchResultsOfLen(n) : n \in 0..MaxDocs}

\* The filters execute() is called with.
CourseNames == {NoneStr, SomeStr("MCP")}
LessonFilters == {NoneInt, SomeInt(3)}

\* The retrieval backend's lesson link for a course and lesson.
LessonLink(title, lesson) ==
    IF lesson.none THEN NoneStr
    ELSE SomeStr("https://example.com/lesson/" \o ToStr(lesson.val))

\* Title of an entry: the course title, 'unknown' when the metadata has none.
TitleOf(meta) ==
    IF meta.course_title.none THEN "unknown" ELSE meta.course_title.val

\* Variant: the label leaves the lesson out.
SourceLabelTitleOnly(meta) == <<TitleOf(meta)>>

\* The label of the citation of one (document, metadata) pair.
SourceLabel(meta) ==
    IF meta.lesson_number.none THEN <<TitleOf(meta)>>
    ELSE <<TitleOf(meta), " - Lesson ", ToStr(meta.lesson_number.val)>>

\* The header of one entry: [<title> - Lesson <number>], the lesson part
\* left out when the metadata has no lesson number.
Header(meta) ==
    IF meta.lesson_number.none THEN <<"[", TitleOf(meta), "]">>
    ELSE <<"[", TitleOf(meta), " - Lesson ",
           ToStr(meta.lesson_number.val), "]">>

\* One formatted entry: the header, a line break, the document.
Entry(meta, doc) == Header(meta) \o <<"\n", doc>>

\* "\n\n".join(entries)
RECURSIVE JoinEntries(_, _)
JoinEntries(entries, i) ==
    IF i > Len(entries) THEN <<>>
    ELSE IF i = Len(entries) THEN entries[i]
    ELSE entries[i] \o <<"\n\n">> \o JoinEntries(entries, i + 1)

\* _format_results: the formatted text and the citations, pairing the
\* documents with the metadata position by position.
FormatResults(rs) ==
    LET n == IF Len(rs.documents) <= Len(rs.metadata)
             THEN Len(rs.documents) ELSE Len(rs.metadata)
    IN
    [text |-> JoinEntries([i \in 1..n |-> Entry(rs.metadata[i], rs.documents[i])], 1),
     sources |-> [i \in 1..n |->
                    [label |-> SourceLabel(rs.metadata[i]),
                     url |-> LessonLink(rs.metadata[i].course_title,
                                        rs.metadata[i].lesson_number)]]]

\* The message for an empty result, with the filters that were given.
NoContentMessage(course_name, lesson_number) ==
    <<"No relevant content found">>
    \o (IF Truthy(course_name) THEN <<" in course '", course_name.val, "'">> ELSE <<>>)
    \o (IF lesson_number.none THEN <<>>
        ELSE <<" in lesson ", ToStr(lesson_number.val)>>)

\* Which of the three returns of the search tool's execute() is taken.
SearchBranchEmptyFirst(rs) ==
    IF Len(rs.documents) = 0 THEN "empty"
    ELSE IF Truthy(rs.error) THEN "error"
    ELSE "format"

SearchBranch(rs) ==
    IF Truthy(rs.error) THEN "error"
    ELSE IF Len(rs.documents) = 0 THEN "empty"
    ELSE "format"

\* CourseSearchTool.execute(query, course_name, lesson_number) on the
\* SearchResults rs of the store: the text returned, whether the source list
\* of the tool is written and with which citations.
SearchExecute(rs, course_name, lesson_number) ==
    CASE SearchBranch(rs) = "error" ->
            [result |-> <<rs.error.val>>, wrote |-> FALSE, sources |-> <<>>]
      [] SearchBranch(rs) = "empty" ->
            [result |-> NoContentMessage(course_name, lesson_number),
             wrote |-> FALSE, sources |-> <<>>]
      [] SearchBranch(rs) = "format" ->
            [result |-> FormatResults(rs).text, wrote |-> TRUE,
             sources |-> FormatResults(rs).sources]

(* ----------------------------- outline tool ---------------------------- *)

\* What the store knows of a course.
Outlines ==
    {[title |-> "Introduction to MCP", link |-> "https://example.com/mcp",
      instructor |-> "Test Instructor",
      lessons |-> <<[number |-> 0, title |-> "Introduction"],
                    [number |-> 1, title |-> "Getting Started"]>>]}

RECURSIVE LessonLines(_, _)
LessonLines(lessons, i) ==
    IF i > Len(lessons) THEN <<>>
    ELSE <<"Lesson ", ToStr(lessons[i].number), ": ", lessons[i].title, "\n">>
         \o LessonLines(lessons, i + 1)

\* CourseOutlineTool.execute(course_name) when the name resolves to course o.
OutlineText(o) ==
    <<"Course: ", o.title, "\n", o.link, "\n", "Instructor: ", o.instructor, "\n">>
    \o LessonLines(o.lessons, 1)
    \o <<ToStr(Len(o.lessons)), " total">>

\* CourseOutlineTool.execute(course_name) when the name does not resolve.
NoCourseFound(course_name) == <<"No course found matching '", course_name, "'">>

NoOutline == [none |-> TRUE,
              val |-> [title |-> "", link |-> "", instructor |-> "", lessons |-> <<>>]]
SomeOutline(o) == [none |-> FALSE, val |-> o]

\* CourseOutlineTool.execute(course_name) on what the store resolved.
OutlineExecute(resolved, course_name) ==
    [result |-> IF resolved.none
                THEN NoCourseFound(IF course_name.none THEN "" ELSE course_name.val)
                ELSE OutlineText(resolved.val),
     wrote |-> FALSE, sources |-> <<>>]

(* ------------------------- execute_tool dispatch ----------------------- *)

NoResults == [documents |-> <<>>, metadata |-> <<>>, distances |-> <<>>,
              error |-> NoneStr]

\* What the store does during one tool execution: it raises exc, or it
\* answers the search with results and the outline lookup with resolved.
StoreRaises(e) ==
    [raises |-> TRUE, exc |-> e, results |-> NoResults, resolved |-> NoOutline]
StoreSearch(rs) ==
    [raises |-> FALSE, exc |-> "", results |-> rs, resolved |-> NoOutline]
StoreOutline(o) ==
    [raises |-> FALSE, exc |-> "", results |-> NoResults, resolved |-> o]

StoreErrors == {"ChromaDB connection failed"}

\* The keyword arguments of an execute_tool call.
Kwargs == [course_name : CourseNames, lesson_number : LessonFilters]

\* tool.execute(**kwargs) of tool instance c when the store answers st.
ToolExecute(c, kw, st) ==
    IF ToolKind(c) = "search"
    THEN SearchExecute(st.results, kw.course_name, kw.lesson_number)
    ELSE OutlineExecute(st.resolved, kw.course_name)

\* execute_tool(name, **kw) on the registry reg and the source lists srcs,
\* the store answering st: whether the call raised, the text returned (or
\* the text of the exception), the tool it was routed to, the citations it
\* wrote, and the source lists afterwards.
ExecuteTool(reg, srcs, name, kw, st) ==
    LET i == IndexOfName(reg, name) IN
    IF i = 0
    THEN [raised |-> NotFound(name).raised, result |-> NotFound(name).result,
          tool |-> "none", wrote |-> FALSE, citations |-> <<>>, srcs |-> srcs]
    ELSE IF st.raises
    THEN [raised |-> TRUE, result |-> <<st.exc>>, tool |-> reg[i].tool,
          wrote |-> FALSE, citations |-> <<>>, srcs |-> srcs]
    ELSE LET r == ToolExecute(reg[i].tool, kw, st) IN
         [raised |-> FALSE, result |-> r.result, tool |-> reg[i].tool,
          wrote |-> r.wrote, citations |-> r.sources,
          srcs |-> IF r.wrote
                   THEN [srcs EXCEPT ![reg[i].tool] =
                            [list |-> r.sources, at |-> NextStamp(srcs)]]
                   ELSE srcs]

NoKwargs == [course_name |-> NoneStr, lesson_number |-> NoneInt]
SomeKwargs == [course_name |-> SomeStr("MCP"), lesson_number |-> SomeInt(3)]

\* The results the store answers with while the tool manager is driven: no
\* document, an error, or MaxDocs documents, one per lesson of one course.
SampleResults ==
    {[documents |-> <<>>, metadata |-> <<>>, distances |-> <<>>, error |-> e] :
        e \in SearchErrors}
    \cup {[documents |-> [i \in 1..MaxDocs |-> "doc A"],
           metadata |-> [i \in 1..MaxDocs |->
                           [course_title |-> SomeStr("Intro"),
                            lesson_number |-> SomeInt(i)]],
           distances |-> [i \in 1..MaxDocs |-> i],
           error |-> NoneStr]}

\* The calls execute_tool(name, **kw) the tool manager is driven with and
\* what the store answers (st) to the tool the name is routed to: a search
\* without filters answered in every way, a search with filters that finds
\* nothing, an outline lookup that resolves or not, an unknown name with and
\* without arguments.
Drive(kw, st) == [kw |-> kw, st |-> st]

DriveInputs(reg, name) ==
    LET i == IndexOfName(reg, name) IN
    IF i = 0
    THEN {Drive(NoKwargs, StoreSearch(NoResults)),
          Drive(SomeKwargs, StoreSearch(NoResults))}
    ELSE IF ToolKind(reg[i].tool) = "search"
    THEN {Drive(NoKwargs, StoreSearch(rs)) : rs \in SampleResults}
         \cup {Drive(NoKwargs, StoreRaises(e)) : e \in StoreErrors}
         \cup {Drive(SomeKwargs, StoreSearch(NoResults))}
    ELSE {Drive(SomeKwargs, StoreOutline(NoOutline))}
         \cup {Drive(SomeKwargs, StoreOutline(SomeOutline(o))) : o \in Outlines}


\* One entry of the log of calls made on the tool manager.
LogEntry(op, name, kw, st, tool, raised, result, wrote, citations, returned) ==
    [op |-> op, name |-> name, kw |-> kw, st |-> st, tool |-> tool, raised |-> raised,
     result |-> result, wrote |-> wrote, citations |-> citations,
     returned |-> returned]

(* ------------------------------- state --------------------------------- *)

DispInit ==
    /\ tool_registry = <<>>
    /\ last_sources = [c \in ToolInstances |-> NoSources]
    /\ dlog = <<>>

XInit ==
    /\ sessions = <<>>
    /\ managers = <<>>
    /\ frames = <<>>
    /\ self_base_params = base_params

GenInit ==
    /\ pc = "idle"
    /\ query = ""
    /\ history = NoneStr
    /\ tools = NoneList
    /\ tool_manager = FALSE
    /\ system_content = <<>>
    /\ messages = <<>>
    /\ response = NoResponse
    /\ round = 0
    /\ tool_error = FALSE
    /\ idx = 0
    /\ tool_results = <<>>
    /\ calls = <<>>
    /\ replies = <<>>
    /\ execs = <<>>
    /\ nrounds = 0
    /\ outcome = Pending

Init == GenInit /\ DispInit /\ XInit

(* --------------------------- pure functions ---------------------------- *)

\* Variant: an empty history string counts as a history.
SystemContentNotNone(h) ==
    IF ~h.none
    THEN <<SYSTEM_PROMPT, "\n\nPrevious conversation:\n", h.val>>
    ELSE <<SYSTEM_PROMPT>>

\* system_content: the prompt alone, or the prompt followed by the
\* "Previous conversation" block (an f-string, kept as its parts).
SystemContent(h) ==
    IF Truthy(h)
    THEN <<SYSTEM_PROMPT, "\n\nPrevious conversation:\n", h.val>>
    ELSE <<SYSTEM_PROMPT>>

\* The keyword arguments of a messages.create call: **self.base_params,
\* "system", "messages" and, when with_tools, the keys "tools" and
\* "tool_choice" (absent keys are has_tools = FALSE, has_tool_choice = FALSE).
ApiParams(sys, msgs, with_tools, t) ==
    [base |-> base_params,
     system |-> sys,
     messages |-> msgs,
     has_tools |-> with_tools,
     tools |-> IF with_tools THEN t.val ELSE <<>>,
     has_tool_choice |-> with_tools,
     tool_choice |-> IF with_tools THEN "auto" ELSE ""]

\* Variant: an empty tools list counts as tools.
InitialWithToolsNotNone(t) == ~t.none

\* "if tools:" before the initial call.
InitialWithTools(t) == Truthy(t)

\* Variants of the loop bound: one iteration too many, no bound at all, one
\* iteration too few.
InRangeOffByOne(r) == r <= MAX_TOOL_ROUNDS
InRangeUnbounded(r) == TRUE
InRangeShort(r) == r < MAX_TOOL_ROUNDS - 1

\* for round in range(self.MAX_TOOL_ROUNDS): the loop body is entered for r.
InRange(r) == r < MAX_TOOL_ROUNDS

\* Variant: the tool manager is not looked at.
LoopBreaksOnStopOnly(resp, tm) == resp.stop_reason /= "tool_use"

\* Variant: the stop reason is not looked at.
LoopBreaksWithoutManagerOnly(resp, tm) == ~tm

\* if response.stop_reason != "tool_use" or not tool_manager: break
LoopBreaks(resp, tm) == resp.stop_reason /= "tool_use" \/ ~tm

\* Variant: the follow-up call keeps the tools in the last allowed round.
FollowUpWithToolsAnyRound(t, err, r) == Truthy(t) /\ ~err

\* if tools and not tool_error and round < self.MAX_TOOL_ROUNDS - 1
FollowUpWithTools(t, err, r) ==
    Truthy(t) /\ ~err /\ r < MAX_TOOL_ROUNDS - 1

\* Variant: the loop variable never advances.
NextRoundStuck(r) == r

\* The next value range() hands to the loop variable.
NextRound(r) == r + 1

\* Variant: the loop goes on after a failed round.
NoBreakAfterFollowUp(err) == FALSE

\* if tool_error: break (after the follow-up call)
BreakAfterFollowUp(err) == err

\* Variant: the exception is swallowed and the fallback returned.
SwallowBackendError(e) == Returned(FALLBACK)

\* No try/except surrounds messages.create: the exception leaves
\* generate_response as raised.
PropagateBackendError(e) == Raised(e)

\* Variant: every tool_result is flagged as an error.
OkResultFlagged(block, out) ==
    [type |-> "tool_result", tool_use_id |-> block.id, content |-> <<out>>,
     is_error |-> TRUE]

\* The tool_result block of a successful execute_tool (no "is_error" key).
OkResult(block, out) ==
    [type |-> "tool_result", tool_use_id |-> block.id, content |-> <<out>>]

\* Variant: the error result is not flagged.
ErrorResultUnflagged(block, e) ==
    [type |-> "tool_result", tool_use_id |-> block.id,
     content |-> <<"Error executing tool: ", e>>, is_error |-> FALSE]

\* The tool_result block built in the except branch; the content is the
\* f-string "Error executing tool: {e}", kept as its parts.
ErrorResult(block, e) ==
    [type |-> "tool_result", tool_use_id |-> block.id,
     content |-> <<"Error executing tool: ", e>>, is_error |-> TRUE]

\* Variant: the history restarts from the query at every round.
AssistantMessageRestarts(msgs, resp) ==
    <<msgs[1], [role |-> "assistant", content |-> resp.content]>>

\* messages.append({"role": "assistant", "content": response.content})
AssistantMessage(msgs, resp) ==
    Append(msgs, [role |-> "assistant", content |-> resp.content])

\* Variant: the newest tool_result is put in front of the earlier ones.
CollectedFirst(results, r) == <<r>> \o results

\* tool_results.append(...)
Collected(results, r) == Append(results, r)

\* Variant: the combined user message keeps only the newest tool_result.
RoundMessageLastOnly(msgs, results) ==
    IF Len(results) > 0
    THEN Append(msgs, [role |-> "user", content |-> <<results[Len(results)]>>])
    ELSE msgs

\* if tool_results: messages.append({"role": "user", "content": tool_results})
RoundMessage(msgs, results) ==
    IF Len(results) > 0
    THEN Append(msgs, [role |-> "user", content |-> results])
    ELSE msgs

\* Index of the first text block of a content list, 0 when there is none.
RECURSIVE FirstTextFrom(_, _)
FirstTextFrom(content, i) ==
    IF i > Len(content) THEN 0
    ELSE IF content[i].type = "text" THEN i
    ELSE FirstTextFrom(content, i + 1)

\* Index of the last text block of a content list, 0 when there is none.
RECURSIVE LastTextFrom(_, _)
LastTextFrom(content, i) ==
    IF i < 1 THEN 0
    ELSE IF content[i].type = "text" THEN i
    ELSE LastTextFrom(content, i - 1)

\* Variant: the last text block is returned instead of the first.
ExtractLastText(content) ==
    LET i == LastTextFrom(content, Len(content)) IN
    IF i = 0 THEN FALLBACK ELSE content[i].text

\* for block in response.content: if block.type == "text": return block.text
\* and the fallback return after the loop.
ExtractText(content) ==
    LET i == FirstTextFrom(content, 1) IN
    IF i = 0 THEN FALLBACK ELSE content[i].text

(* ------------------------------ actions -------------------------------- *)

\* generate_response up to (not including) the initial messages.create call.
Generate(q, h, t, tm) ==
    /\ pc = "idle"
    /\ query' = q
    /\ history' = h
    /\ tools' = t
    /\ tool_manager' = tm
    /\ system_content' = SystemContent(h)
    /\ messages' = <<[role |-> "user", content |-> q]>>
    /\ pc' = "initial_call"
    /\ UNCHANGED <<response, round, tool_error, idx, tool_results, logs, outcome>>
    /\ UNCHANGED <<dvars, xvars>>

\* The initial messages.create call returns resp.
InitialCallReturns(resp) ==
    /\ pc = "initial_call"
    /\ Len(calls) < MaxCalls
    /\ calls' = Append(calls,
                  ApiParams(system_content, messages, InitialWithTools(tools), tools))
    /\ replies' = Append(replies, Answered(resp))
    /\ response' = resp
    /\ round' = 0
    /\ pc' = "loop"
    /\ UNCHANGED <<args, system_content, messages, tool_error, idx,
                   tool_results, execs, nrounds, outcome>>
    /\ UNCHANGED <<dvars, xvars>>

\* The initial messages.create call raises e.
InitialCallRaises(e) ==
    /\ pc = "initial_call"
    /\ Len(calls) < MaxCalls
    /\ calls' = Append(calls,
                  ApiParams(system_content, messages, InitialWithTools(tools), tools))
    /\ replies' = Append(replies, Failed(e))
    /\ outcome' = PropagateBackendError(e)
    /\ pc' = IF outcome'.kind = "raise" THEN "raised" ELSE "done"
    /\ UNCHANGED <<args, system_content, messages, response, round, tool_error,
                   idx, tool_results, execs, nrounds>>
    /\ UNCHANGED <<dvars, xvars>>

\* Top of the for loop: the range is exhausted or the break at its head is
\* taken; control reaches the text extraction.
LoopExit ==
    /\ pc = "loop"
    /\ (~InRange(round) \/ LoopBreaks(response, tool_manager))
    /\ pc' = "extract"
    /\ UNCHANGED <<args, system_content, messages, response, round, tool_error,
                   idx, tool_results, logs, outcome>>
    /\ UNCHANGED <<dvars, xvars>>

\* The loop body starts a round: _execute_tool_round is entered and appends
\* the assistant message.
StartRound ==
    /\ pc = "loop"
    /\ InRange(round)
    /\ ~LoopBreaks(response, tool_manager)
    /\ messages' = AssistantMessage(messages, response)
    /\ tool_results' = <<>>
    /\ idx' = 1
    /\ nrounds' = nrounds + 1
    /\ pc' = "tool_round"
    /\ UNCHANGED <<args, system_content, response, round, tool_error, calls,
                   replies, execs, outcome>>
    /\ UNCHANGED <<dvars, xvars>>

\* for content_block in response.content: a block that is not tool_use.
SkipBlock ==
    /\ pc = "tool_round"
    /\ idx <= Len(response.content)
    /\ response.content[idx].type /= "tool_use"
    /\ idx' = idx + 1
    /\ UNCHANGED <<pc, args, system_content, messages, response, round,
                   tool_error, tool_results, logs, outcome>>
    /\ UNCHANGED <<dvars, xvars>>

\* One execute_tool call: the request, whether it returned (ok) and what it
\* returned or raised (val), and where it happened: after which backend call,
\* in which round, at which position of response.content.
ExecRecord(block, ok, val) ==
    [id |-> block.id, name |-> block.name, input |-> block.input, ok |-> ok,
     val |-> val, call |-> Len(calls), round |-> nrounds, pos |-> idx]

\* A tool_use block whose execute_tool call returns out (what the call does
\* to the tool manager is stated by the caller of this action).
ExecToolReturns(out) ==
    /\ pc = "tool_round"
    /\ idx <= Len(response.content)
    /\ response.content[idx].type = "tool_use"
    /\ execs' = Append(execs, ExecRecord(response.content[idx], TRUE, out))
    /\ tool_results' = Collected(tool_results, OkResult(response.content[idx], out))
    /\ idx' = idx + 1
    /\ UNCHANGED <<pc, args, system_content, messages, response, round,
                   tool_error, calls, replies, nrounds, outcome>>
    /\ UNCHANGED xvars

\* A tool_use block whose execute_tool call raises e: the except branch
\* appends the error result and the combined user message and returns False.
ExecToolRaises(e) ==
    /\ pc = "tool_round"
    /\ idx <= Len(response.content)
    /\ response.content[idx].type = "tool_use"
    /\ execs' = Append(execs, ExecRecord(response.content[idx], FALSE, e))
    /\ tool_results' = Collected(tool_results, ErrorResult(response.content[idx], e))
    /\ messages' = RoundMessage(messages, tool_results')
    /\ tool_error' = TRUE
    /\ pc' = "follow_up"
    /\ UNCHANGED <<args, system_content, response, round, idx, calls, replies,
                   nrounds, outcome>>
    /\ UNCHANGED xvars

\* A tool_use block whose execute_tool call raises e, a BaseException that is
\* not an Exception: "except Exception" does not catch it, and it leaves
\* _execute_tool_round and generate_response; nothing is appended.
ExecToolPropagates(e) ==
    /\ pc = "tool_round"
    /\ idx <= Len(response.content)
    /\ response.content[idx].type = "tool_use"
    /\ execs' = Append(execs, ExecRecord(response.content[idx], FALSE, e))
    /\ outcome' = Raised(e)
    /\ pc' = "raised"
    /\ UNCHANGED <<args, system_content, messages, response, round, tool_error,
                   idx, tool_results, calls, replies, nrounds>>
    /\ UNCHANGED xvars

\* The for loop of _execute_tool_round ends: the combined user message is
\* appended when there are results, and True is returned.
EndRound ==
    /\ pc = "tool_round"
    /\ idx > Len(response.content)
    /\ messages' = RoundMessage(messages, tool_results)
    /\ tool_error' = FALSE
    /\ pc' = "follow_up"
    /\ UNCHANGED <<args, system_content, response, round, idx, tool_results,
                   logs, outcome>>
    /\ UNCHANGED <<dvars, xvars>>

\* The follow-up messages.create call returns resp; the loop breaks after a
\* failed round and otherwise goes to its next iteration.
FollowUpReturns(resp) ==
    /\ pc = "follow_up"
    /\ Len(calls) < MaxCalls
    /\ calls' = Append(calls,
                  ApiParams(system_content, messages,
                            FollowUpWithTools(tools, tool_error, round), tools))
    /\ replies' = Append(replies, Answered(resp))
    /\ response' = resp
    /\ IF BreakAfterFollowUp(tool_error)
       THEN pc' = "extract" /\ round' = round
       ELSE pc' = "loop" /\ round' = NextRound(round)
    /\ UNCHANGED <<args, system_content, messages, tool_error, idx,
                   tool_results, execs, nrounds, outcome>>
    /\ UNCHANGED <<dvars, xvars>>

\* The follow-up messages.create call raises e.
FollowUpRaises(e) ==
    /\ pc = "follow_up"
    /\ Len(calls) < MaxCalls
    /\ calls' = Append(calls,
                  ApiParams(system_content, messages,
                            FollowUpWithTools(tools, tool_error, round), tools))
    /\ replies' = Append(replies, Failed(e))
    /\ outcome' = PropagateBackendError(e)
    /\ pc' = IF outcome'.kind = "raise" THEN "raised" ELSE "done"
    /\ UNCHANGED <<args, system_content, messages, response, round, tool_error,
                   idx, tool_results, execs, nrounds>>
    /\ UNCHANGED <<dvars, xvars>>

\* The text extraction after the loop and the return.
Extract ==
    /\ pc = "extract"
    /\ outcome' = Returned(ExtractText(response.content))
    /\ pc' = "done"
    /\ UNCHANGED <<args, system_content, messages, response, round, tool_error,
                   idx, tool_results, logs>>
    /\ UNCHANGED <<dvars, xvars>>

Next ==
    \/ \E q \in Queries, h \in Histories, t \in ToolArgs, tm \in BOOLEAN :
          Generate(q, h, t, tm)
    \/ \E resp \in Responses(Len(calls) + 1) : InitialCallReturns(resp)
    \/ \E e \in BackendErrors : InitialCallRaises(e)
    \/ LoopExit
    \/ StartRound
    \/ SkipBlock
    \/ \E out \in ToolOutputs : ExecToolReturns(out) /\ UNCHANGED dvars
    \/ \E e \in ToolErrors : ExecToolRaises(e) /\ UNCHANGED dvars
    \/ \E e \in ToolInterrupts : ExecToolPropagates(e) /\ UNCHANGED dvars
    \/ EndRound
    \/ \E resp \in Responses(Len(calls) + 1) : FollowUpReturns(resp)
    \/ \E e \in BackendErrors : FollowUpRaises(e)
    \/ Extract

Spec == Init /\ [][Next]_vars

\* A running invocation is never suspended for ever between two statements:
\* every call of the backend and of a tool returns or raises.
FairSpec == Spec /\ WF_vars(Next)

(* ----------------------- the tool manager alone ------------------------ *)

\* manager.register_tool(c)
DRegister(c) ==
    /\ Len(dlog) < MaxOps
    /\ tool_registry' = RegisterTool(tool_registry, c)
    /\ dlog' = Append(dlog, LogEntry("register", DeclaredName(c), NoKwargs,
                                     StoreSearch(NoResults), c, FALSE,
                                     <<>>, FALSE, <<>>, <<>>))
    /\ UNCHANGED <<last_sources, gvars, xvars>>

\* manager.get_tool_definitions()
DDefinitions ==
    /\ Len(dlog) < MaxOps
    /\ dlog' = Append(dlog, LogEntry("definitions", "", NoKwargs,
                                     StoreSearch(NoResults), "none", FALSE, <<>>,
                                     FALSE, <<>>,
                                     GetToolDefinitions(tool_registry)))
    /\ UNCHANGED <<tool_registry, last_sources, gvars, xvars>>

\* manager.execute_tool(name, **kw), the store answering st.
DExecute(name, kw, st) ==
    /\ Len(dlog) < MaxOps
    /\ LET r == ExecuteTool(tool_registry, last_sources, name, kw, st) IN
       /\ last_sources' = r.srcs
       /\ dlog' = Append(dlog, LogEntry("execute", name, kw, st, r.tool, r.raised,
                                        r.result, r.wrote, r.citations, <<>>))
    /\ UNCHANGED <<tool_registry, gvars, xvars>>

\* manager.get_last_sources()
DLastSources ==
    /\ Len(dlog) < MaxOps
    /\ dlog' = Append(dlog, LogEntry("last_sources", "", NoKwargs,
                                     StoreSearch(NoResults), "none", FALSE, <<>>,
                                     FALSE, <<>>,
                                     GetLastSources(tool_registry, last_sources)))
    /\ UNCHANGED <<tool_registry, last_sources, gvars, xvars>>

\* manager.reset_sources()
DReset ==
    /\ Len(dlog) < MaxOps
    /\ last_sources' = ResetSources(tool_registry, last_sources)
    /\ dlog' = Append(dlog, LogEntry("reset", "", NoKwargs,
                                     StoreSearch(NoResults), "none", FALSE, <<>>, FALSE,
                                     <<>>, <<>>))
    /\ UNCHANGED <<tool_registry, gvars, xvars>>

NextDisp ==
    \/ \E c \in ToolInstances : DRegister(c)
    \/ DDefinitions
    \/ \E name \in RequestedNames :
          \E in \in DriveInputs(tool_registry, name) : DExecute(name, in.kw, in.st)
    \/ DLastSources
    \/ DReset

SpecDisp == Init /\ [][NextDisp]_vars

(* -------------- generate_response on a real tool manager --------------- *)

\* The caller builds one tool manager with the search tool and the outline
\* tool and hands its definitions and the manager to every generate_response.
CallerRegistry == RegisterTool(RegisterTool(<<>>, "search1"), "outline")

InitOrch ==
    /\ GenInit
    /\ tool_registry = CallerRegistry
    /\ last_sources = [c \in ToolInstances |-> NoSources]
    /\ dlog = <<>>
    /\ XInit

\* The tool names the backend asks for: a registered one and an unknown one.
AskedNames == {"search_course_content", "nonexistent_tool"}

AskedBlocks(k, i) ==
    {[type |-> "text", text |-> "Hello!"]}
    \cup {[type |-> "tool_use", id |-> ToolId(k, i), name |-> n, input |-> a] :
             n \in AskedNames, a \in ToolInputs}

RECURSIVE AskedContentsOfLen(_, _)
AskedContentsOfLen(k, n) ==
    IF n = 0 THEN {<<>>}
    ELSE {Append(c, b) : c \in AskedContentsOfLen(k, n - 1), b \in AskedBlocks(k, n)}

AskedTable ==
    [k \in 1..MaxCalls |->
        [stop_reason : StopReasons,
         content : UNION {AskedContentsOfLen(k, n) : n \in 0..MaxBlocks}]]
AskedResponses(k) == IF k \in DOMAIN AskedTable THEN AskedTable[k] ELSE {}

\* The keyword arguments execute_tool gets from content_block.input.
\* Every key of the input is forwarded; the optional parameters of the
\* tools that the input leaves out are None.
KwargsOf(input) ==
    [k \in {"course_name", "lesson_number"} \cup DOMAIN input |->
        IF k \notin DOMAIN input
        THEN IF k = "lesson_number" THEN NoneInt ELSE NoneStr
        ELSE IF k = "lesson_number" THEN SomeInt(input[k]) ELSE SomeStr(input[k])]

\* What the store answers while generate_response runs: documents found,
\* or an exception.
AskedAnswers(name) ==
    IF IndexOfName(tool_registry, name) = 0 THEN {StoreSearch(NoResults)}
    ELSE {StoreSearch(rs) : rs \in {r \in SampleResults : Len(r.documents) > 0}}
         \cup {StoreRaises(e) : e \in StoreErrors}

\* tool_manager.execute_tool(content_block.name, **content_block.input) in
\* _execute_tool_round, on the tool manager of the caller.
ExecOnManager(st) ==
    /\ pc = "tool_round"
    /\ idx <= Len(response.content)
    /\ response.content[idx].type = "tool_use"
    /\ LET block == response.content[idx]
           r == ExecuteTool(tool_registry, last_sources, block.name,
                            KwargsOf(block.input), st)
       IN
       /\ IF r.raised THEN ExecToolRaises(r.result) ELSE ExecToolReturns(r.result)
       /\ last_sources' = r.srcs
    /\ UNCHANGED <<tool_registry, dlog>>

\* generate_response over the caller's tool manager. The tools argument is
\* None, an empty list or the definitions of the registered tools, and the
\* tool manager is given or not; the history, which only goes into the
\* system content, is left out.
NextOrch ==
    \/ \E q \in Queries, tm \in BOOLEAN :
          \E t \in {NoneList, SomeList(<<>>),
                    SomeList(GetToolDefinitions(tool_registry))} :
              Generate(q, NoneStr, t, tm)
    \/ \E resp \in AskedResponses(Len(calls) + 1) : InitialCallReturns(resp)
    \/ \E e \in BackendErrors : InitialCallRaises(e)
    \/ LoopExit
    \/ StartRound
    \/ SkipBlock
    \/ /\ pc = "tool_round"
       /\ idx <= Len(response.content)
       /\ response.content[idx].type = "tool_use"
       /\ \E st \in AskedAnswers(response.content[idx].name) : ExecOnManager(st)
    \/ \E e \in ToolInterrupts : ExecToolPropagates(e) /\ UNCHANGED dvars
    \/ EndRound
    \/ \E resp \in AskedResponses(Len(calls) + 1) : FollowUpReturns(resp)
    \/ \E e \in BackendErrors : FollowUpRaises(e)
    \/ Extract

SpecOrch == InitOrch /\ [][NextOrch]_vars

(* --------------------- queries of the caller in flight ----------------- *)

\* The queries of the caller and the tool managers they may run on.
Clients == {1, 2, 3}
Managers == {1, 2}

\* One query: where it stands (idle, running: inside generate_response,
\* read: the citations are taken, done: the sources are reset, failed:
\* generate_response raised and the query ended with it), the tool
\* manager it runs on, the number of its execute_tool calls, the citations it
\* read, the citations its own execute_tool calls wrote, and whether no other
\* query was in flight on its tool manager while it was.
IdleSession(m) ==
    [pc |-> "idle", mgr |-> m, nexec |-> 0, read |-> <<>>, made |-> {},
     alone |-> TRUE]

\* The other queries in flight on the tool manager of query c.
Sharers(ss, c) ==
    {d \in DOMAIN ss :
        d /= c /\ ss[d].mgr = ss[c].mgr /\ ss[d].pc \in {"running", "read"}}

\* What the store finds for query c: nothing, or one document of the course
\* the query is about.
ResultsFor(c) ==
    {NoResults,
     [documents |-> <<"doc A">>,
      metadata |-> <<[course_title |-> SomeStr("Course " \o ToStr(c)),
                      lesson_number |-> SomeInt(1)]>>,
      distances |-> <<1>>, error |-> NoneStr]}

\* Queries 1 and 2 run on any tool manager (the same or not), query 3 has
\* tool manager 2.
InitShare ==
    /\ GenInit
    /\ DispInit
    /\ sessions \in {[c \in Clients |-> IdleSession(m[c])] :
                       m \in {f \in [Clients -> Managers] : f[3] = 2}}
    /\ managers = [m \in Managers |-> [c \in ToolInstances |-> NoSources]]
    /\ frames = <<>>
    /\ self_base_params = base_params

\* query(): generate_response is entered.
QStart(c) ==
    /\ sessions[c].pc = "idle"
    /\ sessions' = [d \in Clients |->
          IF d = c
          THEN [sessions[c] EXCEPT !.pc = "running",
                                   !.alone = (Sharers(sessions, c) = {})]
          ELSE IF d \in Sharers(sessions, c)
          THEN [sessions[d] EXCEPT !.alone = FALSE]
          ELSE sessions[d]]
    /\ UNCHANGED <<managers, frames, self_base_params, gvars, dvars>>

\* An execute_tool call of generate_response for query c (one per round).
QExecute(c, rs) ==
    /\ sessions[c].pc = "running"
    /\ sessions[c].nexec < MAX_TOOL_ROUNDS
    /\ LET r == ExecuteTool(CallerRegistry, managers[sessions[c].mgr],
                            "search_course_content", NoKwargs, StoreSearch(rs))
       IN
       /\ managers' = [managers EXCEPT ![sessions[c].mgr] = r.srcs]
       /\ sessions' = [sessions EXCEPT
             ![c].nexec = @ + 1,
             ![c].made = @ \cup {r.citations[i] : i \in 1..Len(r.citations)}]
    /\ UNCHANGED <<frames, self_base_params, gvars, dvars>>

\* sources = tool_manager.get_last_sources(), after generate_response.
QLastSources(c) ==
    /\ sessions[c].pc = "running"
    /\ sessions' = [sessions EXCEPT
          ![c].pc = "read",
          ![c].read = GetLastSources(CallerRegistry, managers[sessions[c].mgr])]
    /\ UNCHANGED <<managers, frames, self_base_params, gvars, dvars>>

\* tool_manager.reset_sources(), after the citations are taken.
QReset(c) ==
    /\ sessions[c].pc = "read"
    /\ managers' = [managers EXCEPT ![sessions[c].mgr] =
                       ResetSources(CallerRegistry, managers[sessions[c].mgr])]
    /\ sessions' = [sessions EXCEPT ![c].pc = "done"]
    /\ UNCHANGED <<frames, self_base_params, gvars, dvars>>

\* generate_response raises a backend error: the exception leaves query(),
\* which neither takes the citations nor resets the sources.
QFail(c) ==
    /\ sessions[c].pc = "running"
    /\ sessions' = [sessions EXCEPT ![c].pc = "failed"]
    /\ UNCHANGED <<managers, frames, self_base_params, gvars, dvars>>

NextShare ==
    \/ \E c \in Clients : QStart(c)
    \/ \E c \in Clients : QFail(c)
    \/ \E c \in Clients : \E rs \in ResultsFor(c) : QExecute(c, rs)
    \/ \E c \in Clients : QLastSources(c)
    \/ \E c \in Clients : QReset(c)

SpecShare == InitShare /\ [][NextShare]_vars

(* ------------- concurrent generate_response invocations --------------- *)

\* The threads that call generate_response of one AIGenerator.
Procs == {1, 2}

\* {**a, **b}: the keys of both, b winning.
Merge(a, b) ==
    [k \in DOMAIN a \cup DOMAIN b |-> IF k \in DOMAIN b THEN b[k] ELSE a[k]]

\* api_params / follow_up_params: {**self.base_params, "messages": ...,
\* "system": ...}, then the keys "tools" and "tool_choice" when with_tools.
CreateKwargs(base, sys, msgs, with_tools, t) ==
    LET ap == Merge(base, [messages |-> msgs, system |-> sys]) IN
    IF with_tools
    THEN Merge(ap, [tools |-> t.val, tool_choice |-> [type |-> "auto"]])
    ELSE ap

\* Variant: the parameters are written into self.base_params itself.
BaseParamsAliased(base, kwargs) == kwargs

\* self.base_params after the parameters of a call were built: the dict
\* display copies it, the attribute is not assigned.
BaseParamsAfter(base, kwargs) == base

\* The locals of one invocation before it starts.
IdleFrame ==
    [pc |-> "idle", query |-> "", history |-> NoneStr, tools |-> NoneList,
     tool_manager |-> FALSE, system_content |-> <<>>, messages |-> <<>>,
     response |-> NoResponse, round |-> 0, tool_error |-> FALSE, idx |-> 0,
     tool_results |-> <<>>, calls |-> <<>>, replies |-> <<>>, execs |-> <<>>,
     nrounds |-> 0, outcome |-> Pending]

\* The statements an invocation runs on its locals alone, up to its next
\* call of the backend or of a tool: the head of the for loop, the text
\* extraction, the entry of _execute_tool_round, the blocks that are not
\* tool_use, the end of the round.
RECURSIVE Settle(_)
Settle(f) ==
    CASE f.pc = "loop" ->
            IF ~InRange(f.round) \/ LoopBreaks(f.response, f.tool_manager)
            THEN [f EXCEPT !.pc = "done",
                           !.outcome = Returned(ExtractText(f.response.content))]
            ELSE Settle([f EXCEPT
                    !.pc = "tool_round",
                    !.messages = Append(@, [role |-> "assistant",
                                            content |-> f.response.content]),
                    !.tool_results = <<>>,
                    !.idx = 1,
                    !.nrounds = @ + 1])
      [] f.pc = "tool_round" ->
            IF f.idx > Len(f.response.content)
            THEN [f EXCEPT
                    !.pc = "follow_up",
                    !.tool_error = FALSE,
                    !.messages = IF Len(f.tool_results) > 0
                                 THEN Append(@, [role |-> "user",
                                                 content |-> f.tool_results])
                                 ELSE @]
            ELSE IF f.response.content[f.idx].type /= "tool_use"
            THEN Settle([f EXCEPT !.idx = @ + 1])
            ELSE f
      [] OTHER -> f

\* generate_response(q, h, t, tm) up to the initial messages.create call.
Entered(f, q, h, t, tm) ==
    [f EXCEPT !.pc = "initial_call", !.query = q, !.history = h, !.tools = t,
              !.tool_manager = tm, !.system_content = SystemContent(h),
              !.messages = <<[role |-> "user", content |-> q]>>]

\* Whether the messages.create call the invocation is about to make carries
\* the tools.
WithTools(f) ==
    IF f.pc = "initial_call" THEN InitialWithTools(f.tools)
    ELSE FollowUpWithTools(f.tools, f.tool_error, f.round)

\* The invocation after its messages.create call with kwargs was answered ans.
AfterBackend(f, kwargs, ans) ==
    LET g == [f EXCEPT !.calls = Append(@, kwargs), !.replies = Append(@, ans)] IN
    IF ans.raised
    THEN [g EXCEPT !.pc = "raised", !.outcome = PropagateBackendError(ans.exc)]
    ELSE IF f.pc = "initial_call"
    THEN Settle([g EXCEPT !.response = ans.resp, !.round = 0, !.pc = "loop"])
    ELSE IF BreakAfterFollowUp(f.tool_error)
    THEN [g EXCEPT !.response = ans.resp, !.pc = "done",
                   !.outcome = Returned(ExtractText(ans.resp.content))]
    ELSE Settle([g EXCEPT !.response = ans.resp, !.round = NextRound(@),
                          !.pc = "loop"])

\* The invocation after the execute_tool call of its current block returned
\* val (how = "return"), raised the Exception val (how = "raise") or raised
\* val that is another BaseException (how = "interrupt").
AfterTool(f, how, val) ==
    LET block == f.response.content[f.idx]
        rec == [id |-> block.id, name |-> block.name, ok |-> how = "return",
                val |-> val,
                call |-> Len(f.calls), round |-> f.nrounds, pos |-> f.idx]
    IN
    IF how = "interrupt"
    THEN [f EXCEPT !.execs = Append(@, rec), !.pc = "raised",
                   !.outcome = Raised(val)]
    ELSE IF how = "return"
    THEN Settle([f EXCEPT !.execs = Append(@, rec),
                          !.tool_results = Append(@, OkResult(block, val)),
                          !.idx = @ + 1])
    ELSE [f EXCEPT
            !.execs = Append(@, rec),
            !.tool_results = Append(@, ErrorResult(block, val)),
            !.messages = Append(@, [role |-> "user",
                                    content |-> Append(f.tool_results,
                                                       ErrorResult(block, val))]),
            !.tool_error = TRUE,
            !.pc = "follow_up"]

\* What thread p passes and what the backend and the tools answer to it:
\* every value carries the thread it belongs to.
QueryOf(p) == "query " \o ToStr(p)
HistoryOf(p) == SomeStr("history " \o ToStr(p))
ToolsOf(p) == {NoneList, SomeList(<<"tools " \o ToStr(p)>>)}
TextOf(p) == "answer " \o ToStr(p)
ToolOutputOf(p) == "results " \o ToStr(p)

AnswersTo(p, k) ==
    {Answered([stop_reason |-> "end_turn",
               content |-> <<[type |-> "text", text |-> TextOf(p)]>>]),
     Answered([stop_reason |-> "tool_use",
               content |-> <<[type |-> "tool_use", id |-> <<p, k, 1>>,
                              name |-> "search_course_content",
                              input |-> [query |-> QueryOf(p)]]>>])}
    \cup {Failed(e) : e \in BackendErrors}

InitConc ==
    /\ GenInit
    /\ DispInit
    /\ sessions = <<>>
    /\ managers = <<>>
    /\ frames = [p \in Procs |-> IdleFrame]
    /\ self_base_params = base_params

\* Thread p calls generate_response.
PGenerate(p, t) ==
    /\ frames[p].pc = "idle"
    /\ frames' = [frames EXCEPT
          ![p] = Entered(frames[p], QueryOf(p), HistoryOf(p), t, TRUE)]
    /\ UNCHANGED <<self_base_params, sessions, managers, gvars, dvars>>

\* A messages.create call of thread p, answered ans.
PBackend(p, ans) ==
    /\ frames[p].pc \in {"initial_call", "follow_up"}
    /\ Len(frames[p].calls) < MaxCalls
    /\ LET f == frames[p]
           kwargs == CreateKwargs(self_base_params, f.system_content,
                                  f.messages, WithTools(f), f.tools)
       IN
       /\ frames' = [frames EXCEPT ![p] = AfterBackend(f, kwargs, ans)]
       /\ self_base_params' = BaseParamsAfter(self_base_params, kwargs)
    /\ UNCHANGED <<sessions, managers, gvars, dvars>>

\* An execute_tool call of thread p returns or raises val.
PTool(p, how, val) ==
    /\ frames[p].pc = "tool_round"
    /\ frames' = [frames EXCEPT ![p] = AfterTool(frames[p], how, val)]
    /\ UNCHANGED <<self_base_params, sessions, managers, gvars, dvars>>

NextConc ==
    \/ \E p \in Procs : \E t \in ToolsOf(p) : PGenerate(p, t)
    \/ \E p \in Procs :
          \E ans \in AnswersTo(p, Len(frames[p].calls) + 1) : PBackend(p, ans)
    \/ \E p \in Procs : PTool(p, "return", ToolOutputOf(p))
    \/ \E p \in Procs, e \in ToolErrors : PTool(p, "raise", e)
    \/ \E p \in Procs, e \in ToolInterrupts : PTool(p, "interrupt", e)

SpecConc == InitConc /\ [][NextConc]_vars

(* ------------------------- the search tool alone ----------------------- *)

\* What the store can answer to a search.
SearchAnswers ==
    {StoreSearch(rs) : rs \in SearchResultSets} \cup {StoreRaises(e) : e \in StoreErrors}

\* A tool manager with one search tool, and one search with any SearchResults
\* and any combination of filters.
NextSearch ==
    \/ dlog = <<>> /\ DRegister("search1")
    \/ \E kw \in Kwargs, st \in SearchAnswers :
          /\ Len(dlog) = 1
          /\ DExecute("search_course_content", kw, st)

SpecSearch == Init /\ [][NextSearch]_vars

(* ------------- generate_response for every kind of history ------------ *)

\* generate_response with tools and a tool manager, called without a
\* history, with an empty history string and with a history.
NextPrompt ==
    \/ \E q \in Queries, h \in Histories \cup {SomeStr("")} :
          Generate(q, h, SomeList(<<"search_course_content">>), TRUE)
    \/ \E resp \in Responses(Len(calls) + 1) : InitialCallReturns(resp)
    \/ \E e \in BackendErrors : InitialCallRaises(e)
    \/ LoopExit
    \/ StartRound
    \/ SkipBlock
    \/ \E out \in ToolOutputs : ExecToolReturns(out) /\ UNCHANGED dvars
    \/ \E e \in ToolErrors : ExecToolRaises(e) /\ UNCHANGED dvars
    \/ \E e \in ToolInterrupts : ExecToolPropagates(e) /\ UNCHANGED dvars
    \/ EndRound
    \/ \E resp \in Responses(Len(calls) + 1) : FollowUpReturns(resp)
    \/ \E e \in BackendErrors : FollowUpRaises(e)
    \/ Extract

SpecPrompt == Init /\ [][NextPrompt]_vars

(* ------- one query of the caller: generate_response, then citations ---- *)

\* Variant: the citations are cleared right after every execute_tool call.
ExecThenResets(st) ==
    /\ pc = "tool_round"
    /\ idx <= Len(response.content)
    /\ response.content[idx].type = "tool_use"
    /\ LET block == response.content[idx]
           r == ExecuteTool(tool_registry, last_sources, block.name,
                            KwargsOf(block.input), st)
       IN
       /\ IF r.raised THEN ExecToolRaises(r.result) ELSE ExecToolReturns(r.result)
       /\ last_sources' = ResetSources(tool_registry, r.srcs)
       /\ dlog' = Append(Append(dlog,
                     LogEntry("execute", block.name, KwargsOf(block.input), st,
                              r.tool, r.raised, r.result, r.wrote, r.citations,
                              <<>>)),
                     LogEntry("reset", "", NoKwargs, StoreSearch(NoResults),
                              "none", FALSE, <<>>, FALSE, <<>>, <<>>))
    /\ UNCHANGED tool_registry

\* tool_manager.execute_tool(content_block.name, **content_block.input) in
\* _execute_tool_round, on the tool manager of the caller; the call is the
\* only thing the round does with the manager and is written to its log.
ExecOnLoggedManager(st) ==
    /\ pc = "tool_round"
    /\ idx <= Len(response.content)
    /\ response.content[idx].type = "tool_use"
    /\ LET block == response.content[idx]
           r == ExecuteTool(tool_registry, last_sources, block.name,
                            KwargsOf(block.input), st)
       IN
       /\ IF r.raised THEN ExecToolRaises(r.result) ELSE ExecToolReturns(r.result)
       /\ last_sources' = r.srcs
       /\ dlog' = Append(dlog,
                     LogEntry("execute", block.name, KwargsOf(block.input), st,
                              r.tool, r.raised, r.result, r.wrote, r.citations,
                              <<>>))
    /\ UNCHANGED tool_registry

\* The caller, after generate_response returned: sources =
\* tool_manager.get_last_sources()
CallerReadsSources ==
    /\ pc = "done"
    /\ Len(dlog) = Len(execs)
    /\ dlog' = Append(dlog, LogEntry("last_sources", "", NoKwargs,
                                     StoreSearch(NoResults), "none", FALSE, <<>>,
                                     FALSE, <<>>,
                                     GetLastSources(tool_registry, last_sources)))
    /\ UNCHANGED <<tool_registry, last_sources, gvars, xvars>>

\* The caller, after it took the citations: tool_manager.reset_sources()
CallerResets ==
    /\ pc = "done"
    /\ Len(dlog) = Len(execs) + 1
    /\ last_sources' = ResetSources(tool_registry, last_sources)
    /\ dlog' = Append(dlog, LogEntry("reset", "", NoKwargs,
                                     StoreSearch(NoResults), "none", FALSE, <<>>,
                                     FALSE, <<>>, <<>>))
    /\ UNCHANGED <<tool_registry, gvars, xvars>>

NextQuery ==
    \/ \E q \in Queries :
          Generate(q, NoneStr, SomeList(GetToolDefinitions(tool_registry)), TRUE)
    \/ \E resp \in AskedResponses(Len(calls) + 1) : InitialCallReturns(resp)
    \/ \E e \in BackendErrors : InitialCallRaises(e)
    \/ LoopExit
    \/ StartRound
    \/ SkipBlock
    \/ /\ pc = "tool_round"
       /\ idx <= Len(response.content)
       /\ response.content[idx].type = "tool_use"
       /\ \E st \in AskedAnswers(response.content[idx].name) :
             ExecOnLoggedManager(st)
    \/ \E e \in ToolInterrupts :
          /\ ExecToolPropagates(e)
          /\ dlog' = Append(dlog,
                LogEntry("execute", response.content[idx].name,
                         KwargsOf(response.content[idx].input), StoreRaises(e),
                         "none", TRUE, e, FALSE, <<>>, <<>>))
          /\ UNCHANGED <<tool_registry, last_sources>>
    \/ EndRound
    \/ \E resp \in AskedResponses(Len(calls) + 1) : FollowUpReturns(resp)
    \/ \E e \in BackendErrors : FollowUpRaises(e)
    \/ Extract
    \/ CallerReadsSources
    \/ CallerResets

SpecQuery == InitOrch /\ [][NextQuery]_vars

(* ------------------------- derived observations ------------------------ *)

Terminated == pc \in {"done", "raised"}

\* The response that call k returned.
ResponseOf(k) == replies[k].resp

\* Number of tool_use blocks of a content list.
ToolUseCount(content) ==
    Cardinality({i \in 1..Len(content) : content[i].type = "tool_use"})

\* The execute_tool calls of round r (rounds are numbered from 1 in execs).
ExecsOfRound(r) == {j \in 1..Len(execs) : execs[j].round = r}

\* The execute_tool call j raised what "except Exception" does not catch:
\* the invocation ended there, after a backend call that had answered.
Interrupted(j) ==
    /\ ~execs[j].ok
    /\ j = Len(execs)
    /\ pc = "raised"
    /\ ~replies[Len(replies)].raised

\* The execute_tool call j raised an Exception, which the round caught.
Caught(j) == ~execs[j].ok /\ ~Interrupted(j)

\* Round r stopped on a raising tool.
RoundFailed(r) == \E j \in ExecsOfRound(r) : ~execs[j].ok

\* Round r (numbered from 1) is the loop iteration round = r - 1; it works on
\* the response of call r and is followed by call r + 1.
CallAfterRound(r) == r + 1

\* The register_tool calls among the first j - 1 calls on the tool manager.
RegistersBefore(j) == {k \in 1..(j - 1) : dlog[k].op = "register"}

\* The names registered by the first j - 1 calls.
NamesBefore(j) == {dlog[k].name : k \in RegistersBefore(j)}

\* The first and the latest of the first j - 1 calls that registered name.
FirstRegistration(j, name) ==
    CHOOSE k \in RegistersBefore(j) :
        /\ dlog[k].name = name
        /\ \A m \in RegistersBefore(j) : dlog[m].name = name => k <= m
LatestRegistration(j, name) ==
    CHOOSE k \in RegistersBefore(j) :
        /\ dlog[k].name = name
        /\ \A m \in RegistersBefore(j) : dlog[m].name = name => m <= k

\* The calls that read the tool manager without changing it.
ReadOps == {"definitions", "last_sources"}

\* The pieces of a text between the separators sep.
RECURSIVE SplitFrom(_, _, _, _)
SplitFrom(text, sep, i, piece) ==
    IF i > Len(text) THEN <<piece>>
    ELSE IF text[i] = sep THEN <<piece>> \o SplitFrom(text, sep, i + 1, <<>>)
    ELSE SplitFrom(text, sep, i + 1, Append(piece, text[i]))

Split(text, sep) == SplitFrom(text, sep, 1, <<>>)

\* The searches of the log that found documents and no error.
FoundDocuments(j) ==
    /\ dlog[j].op = "execute"
    /\ dlog[j].tool \in {"search1", "search2"}
    /\ ~dlog[j].st.raises
    /\ ~Truthy(dlog[j].st.results.error)
    /\ Len(dlog[j].st.results.documents) > 0

(* ------------------------------- claims -------------------------------- *)

\* C1: one generate_response invocation issues at most MAX_TOOL_ROUNDS + 1
\* backend calls and runs at most MAX_TOOL_ROUNDS tool-execution rounds,
\* whatever the backend and the tools answer.
C1_CallAndRoundBudget ==
    /\ Len(calls) <= MAX_TOOL_ROUNDS + 1
    /\ nrounds <= MAX_TOOL_ROUNDS

C1_Witness ==
    /\ pc = "done"
    /\ Len(calls) = MAX_TOOL_ROUNDS + 1
    /\ nrounds = MAX_TOOL_ROUNDS

\* C2 as stated: the total number of execute_tool calls of one invocation is
\* at most MAX_TOOL_ROUNDS, also when a response carries several tool_use
\* blocks.
C2_ExecsAtMostMaxRounds == Len(execs) <= MAX_TOOL_ROUNDS

\* C2 amended: at most MAX_TOOL_ROUNDS rounds run, every round makes at most
\* one execute_tool call per tool_use block of the response it works on, and
\* when every such response carries at most one tool_use block the total
\* number of execute_tool calls is at most MAX_TOOL_ROUNDS.
C2_ExecsBoundedPerRound ==
    /\ nrounds <= MAX_TOOL_ROUNDS
    /\ \A j \in 1..Len(execs) : execs[j].round \in 1..nrounds
    /\ \A r \in 1..nrounds :
          Cardinality(ExecsOfRound(r)) <= ToolUseCount(ResponseOf(r).content)
    /\ (\A r \in 1..nrounds : ToolUseCount(ResponseOf(r).content) <= 1)
          => Len(execs) <= MAX_TOOL_ROUNDS

C2_Witness ==
    /\ pc = "done"
    /\ nrounds = MAX_TOOL_ROUNDS
    /\ Len(execs) = 2 * MAX_TOOL_ROUNDS

\* C3 as stated: the backend call that follows round r carries the tool
\* definitions if and only if r < MAX_TOOL_ROUNDS - 1 and round r did not
\* fail.
C3_ToolsIffRoundAllows ==
    \A r \in 1..nrounds :
        Len(calls) >= CallAfterRound(r) =>
            (calls[CallAfterRound(r)].has_tools
                <=> ((r - 1 < MAX_TOOL_ROUNDS - 1) /\ ~RoundFailed(r)))

\* C3 amended: the backend call that follows round r carries the tool
\* definitions, together with the automatic tool choice, if and only if a
\* non-empty tools argument was given, r < MAX_TOOL_ROUNDS - 1 and round r
\* did not fail; the call after the last allowed round never carries them.
C3_ToolsIffGivenAndRoundAllows ==
    \A r \in 1..nrounds :
        Len(calls) >= CallAfterRound(r) =>
            LET c == calls[CallAfterRound(r)] IN
            /\ c.has_tools
                  <=> (Truthy(tools) /\ (r - 1 < MAX_TOOL_ROUNDS - 1)
                          /\ ~RoundFailed(r))
            /\ c.has_tool_choice = c.has_tools
            /\ c.has_tools => (c.tools = tools.val /\ c.tool_choice = "auto")
            /\ (r = MAX_TOOL_ROUNDS) => ~c.has_tools

C3_Witness ==
    /\ Len(calls) = MAX_TOOL_ROUNDS + 1
    /\ calls[2].has_tools
    /\ ~calls[MAX_TOOL_ROUNDS + 1].has_tools
    /\ Truthy(tools)
    /\ ~RoundFailed(MAX_TOOL_ROUNDS)

\* C4 as stated: once an execute_tool call has raised, whatever it raised,
\* the invocation makes exactly one more backend call, that call carries no
\* tool definitions, and whatever that call answers no further round, tool
\* execution or backend call happens.
C4_FailedRoundFinalizes ==
    \A j \in 1..Len(execs) :
        ~execs[j].ok =>
            /\ j = Len(execs)
            /\ nrounds = execs[j].round
            /\ Len(calls) <= execs[j].call + 1
            /\ Len(calls) = execs[j].call + 1 =>
                  /\ ~calls[Len(calls)].has_tools
                  /\ ~calls[Len(calls)].has_tool_choice
                  /\ pc \in {"extract", "done", "raised"}
            /\ Terminated => Len(calls) = execs[j].call + 1

\* C4 amended: once an execute_tool call has raised an Exception, the
\* invocation makes exactly one more backend call, without tool definitions,
\* and then no further round, tool execution or backend call happens; when
\* it raised another BaseException the invocation ends there, with no
\* further backend call at all.
C4_CaughtFailureFinalizes ==
    \A j \in 1..Len(execs) :
        /\ Caught(j) =>
            /\ j = Len(execs)
            /\ nrounds = execs[j].round
            /\ Len(calls) <= execs[j].call + 1
            /\ Len(calls) = execs[j].call + 1 =>
                  /\ ~calls[Len(calls)].has_tools
                  /\ ~calls[Len(calls)].has_tool_choice
                  /\ pc \in {"extract", "done", "raised"}
            /\ Terminated => Len(calls) = execs[j].call + 1
        /\ Interrupted(j) =>
            /\ nrounds = execs[j].round
            /\ Len(calls) = execs[j].call

C4_Witness ==
    /\ pc = "done"
    /\ Len(execs) > 0
    /\ ~execs[Len(execs)].ok
    /\ execs[Len(execs)].round = 1
    /\ Truthy(tools)
    /\ ResponseOf(Len(calls)).stop_reason = "tool_use"
    /\ ToolUseCount(ResponseOf(Len(calls)).content) > 0

\* C5: an exception of a messages.create call (the initial call or a
\* follow-up call) is not caught: generate_response ends by raising that same
\* exception, returns no value, and the failing call is the last backend call
\* and comes after every tool execution.
C5_BackendErrorPropagates ==
    /\ \A k \in 1..Len(replies) :
          replies[k].raised =>
              /\ k = Len(calls)
              /\ pc = "raised"
              /\ outcome = Raised(replies[k].exc)
              /\ \A j \in 1..Len(execs) : execs[j].call < k
    /\ (pc = "raised" /\ \A j \in 1..Len(execs) : ~Interrupted(j)) =>
          (Len(replies) > 0 /\ replies[Len(replies)].raised)
    /\ Len(replies) = Len(calls)

C5_Witness ==
    /\ pc = "raised"
    /\ Len(calls) = 2
    /\ Len(execs) > 0
    /\ outcome.value \in BackendErrors

\* C6 as stated: whatever execute_tool raises does not leave
\* generate_response: it becomes a tool_result block with the id of the
\* failing request, a content that holds the error text and is_error true,
\* and that block closes the user message appended to the history before
\* the next backend call.
C6_ToolErrorBecomesResult ==
    \A j \in 1..Len(execs) :
        ~execs[j].ok =>
            LET m == messages[Len(messages)]
                tr == m.content[Len(m.content)]
                req == ResponseOf(execs[j].call).content[execs[j].pos]
            IN
            /\ m.role = "user"
            /\ tr.type = "tool_result"
            /\ req.type = "tool_use"
            /\ execs[j].id = req.id
            /\ tr.tool_use_id = req.id
            /\ tr.is_error = TRUE
            /\ \E i \in 1..Len(tr.content) : tr.content[i] = execs[j].val
            /\ outcome.kind = "raise" => replies[Len(replies)].raised
            /\ Len(calls) > execs[j].call =>
                  calls[execs[j].call + 1].messages = messages

\* C6 amended: an Exception raised by execute_tool does not leave
\* generate_response: it becomes a tool_result block with the id of the
\* failing request, the error text and is_error true, closing the user
\* message appended before the next backend call. Another BaseException
\* (KeyboardInterrupt, SystemExit, GeneratorExit) leaves generate_response:
\* no tool_result is built for the request and no backend call follows.
C6_CaughtErrorBecomesResult ==
    \A j \in 1..Len(execs) :
        /\ Caught(j) =>
            LET m == messages[Len(messages)]
                tr == m.content[Len(m.content)]
                req == ResponseOf(execs[j].call).content[execs[j].pos]
            IN
            /\ m.role = "user"
            /\ tr.type = "tool_result"
            /\ req.type = "tool_use"
            /\ execs[j].id = req.id
            /\ tr.tool_use_id = req.id
            /\ tr.is_error = TRUE
            /\ \E i \in 1..Len(tr.content) : tr.content[i] = execs[j].val
            /\ outcome.kind = "raise" => replies[Len(replies)].raised
            /\ Len(calls) > execs[j].call =>
                  calls[execs[j].call + 1].messages = messages
        /\ Interrupted(j) =>
            /\ outcome = Raised(execs[j].val)
            /\ Len(calls) = execs[j].call
            /\ messages[Len(messages)].role = "assistant"
            /\ \A n \in 1..Len(tool_results) :
                  tool_results[n].tool_use_id /= execs[j].id

C6_Witness ==
    /\ pc = "done"
    /\ Len(execs) = 2
    /\ execs[1].ok
    /\ ~execs[2].ok
    /\ execs[2].round = 1
    /\ messages[Len(messages)].content[2].tool_use_id = ToolId(1, 2)

\* C7: the value generate_response returns is the text of the first text
\* block of the last response the backend returned, and it is the fallback
\* string when that response holds no text block.
C7_ReturnsFirstTextOrFallback ==
    pc = "done" =>
        LET c == ResponseOf(Len(replies)).content
            T == {i \in 1..Len(c) : c[i].type = "text"}
        IN
        /\ outcome.kind = "return"
        /\ c = response.content
        /\ T = {} => outcome.value = FALLBACK
        /\ T /= {} =>
              \E i \in T : (\A k \in T : i <= k) /\ outcome.value = c[i].text

C7_Witness ==
    /\ pc = "done"
    /\ Len(response.content) = 2
    /\ response.content[1].type = "text"
    /\ response.content[2].type = "text"
    /\ response.content[1].text /= response.content[2].text
    /\ outcome.value = response.content[1].text

\* C8: the value generate_response returns is never the empty string,
\* whatever blocks the final response holds.
C8_NeverReturnsEmpty ==
    pc = "done" => (outcome.kind = "return" /\ outcome.value /= "")

\* The backend answered every call of the finished invocation with the
\* tool_use stop signal, a tool manager was given and no tool raised.
AlwaysToolUse ==
    /\ pc = "done"
    /\ tool_manager
    /\ \A k \in 1..Len(replies) :
          ~replies[k].raised /\ ResponseOf(k).stop_reason = "tool_use"
    /\ \A j \in 1..Len(execs) : execs[j].ok

\* C9 as stated: when the backend answers every call with the tool_use stop
\* signal, a tool manager is given and no tool raises, exactly
\* MAX_TOOL_ROUNDS rounds run, exactly MAX_TOOL_ROUNDS + 1 backend calls are
\* made, the tool requests of the last response are not executed, and the
\* fallback string is returned.
C9_ExhaustedReturnsFallback ==
    AlwaysToolUse =>
        /\ nrounds = MAX_TOOL_ROUNDS
        /\ Len(calls) = MAX_TOOL_ROUNDS + 1
        /\ \A j \in 1..Len(execs) : execs[j].call < Len(calls)
        /\ outcome = Returned(FALLBACK)

\* C9 amended: in that case exactly MAX_TOOL_ROUNDS rounds run, exactly
\* MAX_TOOL_ROUNDS + 1 backend calls are made, the tool requests of the last
\* response are not executed, and the value returned is the fallback string
\* when the last response holds no text block and the text of its first text
\* block otherwise.
C9_ExhaustedReturnsTextOrFallback ==
    AlwaysToolUse =>
        LET c == ResponseOf(Len(replies)).content
            T == {i \in 1..Len(c) : c[i].type = "text"}
        IN
        /\ nrounds = MAX_TOOL_ROUNDS
        /\ Len(calls) = MAX_TOOL_ROUNDS + 1
        /\ \A j \in 1..Len(execs) : execs[j].call < Len(calls)
        /\ T = {} => outcome = Returned(FALLBACK)
        /\ T /= {} =>
              \E i \in T : (\A k \in T : i <= k) /\ outcome = Returned(c[i].text)

C9_Witness ==
    /\ AlwaysToolUse
    /\ Len(execs) = MAX_TOOL_ROUNDS
    /\ ToolUseCount(response.content) = 1
    /\ Len(response.content) = 1
    /\ outcome = Returned(FALLBACK)

\* C10 as stated: every generate_response invocation that has started ends
\* by returning a string or by raising the exception of a backend call, when
\* every backend call and every tool call returns or raises.
C10_EndsByReturnOrBackendError ==
    (pc = "initial_call") ~>
        (pc = "done" \/ (pc = "raised" /\ replies[Len(replies)].raised))

\* C10 amended: every generate_response invocation that has started ends, by
\* returning a string, by raising the exception of a backend call or by
\* raising what a tool raised that is not an Exception, when every backend
\* call and every tool call returns or raises.
C10_Terminates == (pc = "initial_call") ~> Terminated

C10_Witness ==
    /\ Terminated
    /\ nrounds = MAX_TOOL_ROUNDS
    /\ Len(execs) > MAX_TOOL_ROUNDS
    /\ ResponseOf(MAX_TOOL_ROUNDS).stop_reason = "tool_use"

\* C11: execute_tool with a name that is not registered returns exactly the
\* string Tool '<name>' not found as a value and does not raise, whether the
\* tool manager is empty or holds other tools, and whatever the arguments.
C11_UnknownToolNotFound ==
    \A j \in 1..Len(dlog) :
        (dlog[j].op = "execute" /\ dlog[j].name \notin NamesBefore(j)) =>
            /\ ~dlog[j].raised
            /\ dlog[j].result = <<"Tool '", dlog[j].name, "' not found">>

C11_Witness ==
    \E j \in 1..Len(dlog) :
        /\ dlog[j].op = "execute"
        /\ dlog[j].name = "nonexistent_tool"
        /\ NamesBefore(j) /= {}
        /\ Truthy(dlog[j].kw.course_name)
        /\ dlog[j].result = <<"Tool '", "nonexistent_tool", "' not found">>

\* C12: a tool_use block whose name the tool manager does not know does not
\* fail its round: the 'not found' string becomes a tool_result without
\* is_error, the later tool_use blocks of the response are executed up to
\* the first one that raises, and the messages.create call after the round
\* carries the tools when a non-empty tool list was given, the round is not
\* the last allowed one and no tool of the round raised.
UnknownExec(j) ==
    /\ execs[j].name /= "search_course_content"
    /\ execs[j].name /= "get_course_outline"

\* The tool_use blocks that follow the block of execs[j] in its response.
LaterToolUses(j) ==
    LET content == ResponseOf(execs[j].call).content
    IN {i \in (execs[j].pos + 1)..Len(content) : content[i].type = "tool_use"}

\* The block at position i of the response of execs[j] was executed.
ExecutedAt(j, i) ==
    \E m \in 1..Len(execs) : execs[m].call = execs[j].call /\ execs[m].pos = i

\* The round of execs[j] is over and the next messages.create call was made.
RoundClosed(j) == Len(calls) > execs[j].call

\* execs[j] came back with the 'not found' string, and once the round is
\* closed the string is a tool_result without is_error in the last message.
NotFoundRecorded(j) ==
    /\ execs[j].ok
    /\ execs[j].val = <<"Tool '", execs[j].name, "' not found">>
    /\ RoundClosed(j) =>
          LET c == calls[execs[j].call + 1]
              m == c.messages[Len(c.messages)]
          IN
          /\ m.role = "user"
          /\ \E i \in 1..Len(m.content) :
                /\ m.content[i].type = "tool_result"
                /\ m.content[i].tool_use_id = execs[j].id
                /\ m.content[i].content = <<execs[j].val>>
                /\ "is_error" \notin DOMAIN m.content[i]

\* The statement without the provisos: every later tool_use block is
\* executed and the call after a round that is not the last allowed one
\* carries tools, whatever tools were given and whatever the other tools
\* of the round did.
C12_UnknownToolKeepsTools ==
    \A j \in 1..Len(execs) :
        (UnknownExec(j) /\ ~Interrupted(j)) =>
            /\ NotFoundRecorded(j)
            /\ (RoundClosed(j) \/ pc = "follow_up") =>
                  \A i \in LaterToolUses(j) : ExecutedAt(j, i)
            /\ (RoundClosed(j) /\ execs[j].round < MAX_TOOL_ROUNDS)
                  => calls[execs[j].call + 1].has_tools

C12_UnknownToolDoesNotFailRound ==
    \A j \in 1..Len(execs) :
        (UnknownExec(j) /\ ~Interrupted(j)) =>
            /\ NotFoundRecorded(j)
            /\ (RoundClosed(j) \/ pc = "follow_up") =>
                  \A i \in LaterToolUses(j) :
                      (\A m \in 1..Len(execs) :
                          (execs[m].call = execs[j].call /\ execs[m].pos < i)
                              => execs[m].ok)
                      => ExecutedAt(j, i)
            /\ (/\ RoundClosed(j)
                /\ Truthy(tools)
                /\ execs[j].round < MAX_TOOL_ROUNDS
                /\ ~RoundFailed(execs[j].round))
                  => /\ calls[execs[j].call + 1].has_tools
                     /\ calls[execs[j].call + 1].tools = tools.val

C12_Witness ==
    /\ Len(calls) >= 2
    /\ Len(execs) >= 2
    /\ UnknownExec(1)
    /\ execs[1].pos = 1
    /\ execs[2].name = "search_course_content"
    /\ execs[2].call = 1
    /\ execs[2].pos = 2
    /\ execs[2].ok
    /\ Truthy(tools)
    /\ calls[2].has_tools
    /\ "is_error" \notin DOMAIN calls[2].messages[3].content[1]

\* C13: right after reset_sources(), get_last_sources() returns the empty
\* list, whatever register_tool, execute_tool and reset_sources calls came
\* before and whichever tools had written their source lists.
C13_ResetEmptiesSources ==
    \A j \in 1..Len(dlog) :
        (dlog[j].op = "reset" /\ \A k \in (j + 1)..Len(dlog) : dlog[k].op \in ReadOps) =>
            /\ GetLastSources(tool_registry, last_sources) = <<>>
            /\ \A k \in (j + 1)..Len(dlog) :
                  dlog[k].op = "last_sources" => dlog[k].returned = <<>>

C13_Witness ==
    /\ Len(dlog) = 4
    /\ dlog[2].op = "execute"
    /\ dlog[2].wrote
    /\ Len(dlog[2].citations) = MaxDocs
    /\ dlog[3].op = "reset"
    /\ dlog[4].op = "last_sources"
    /\ dlog[4].returned = <<>>

\* C14: when execute_tool calls follow one another with no reset_sources in
\* between, get_last_sources() gives the citations of the latest call that
\* returned and nothing of the calls before it, also when that latest call
\* wrote no citation.
C14_SourcesOfLatestExecute ==
    \A j \in 1..Len(dlog) :
        (/\ dlog[j].op = "execute"
         /\ ~dlog[j].raised
         /\ \A k \in (j + 1)..Len(dlog) :
               \/ dlog[k].op \in ReadOps
               \/ dlog[k].op = "execute" /\ dlog[k].raised) =>
            GetLastSources(tool_registry, last_sources) = dlog[j].citations

\* C15: concurrent generate_response invocations on one AIGenerator share no
\* state that changes: under every interleaving self.base_params keeps the
\* value __init__ gave it, and the parameters of every messages.create call
\* of an invocation (base parameters, system, messages, tools), its message
\* history and its return value are built from that invocation's own
\* arguments, backend responses and tool results.
OwnBlock(p, b) ==
    \/ b.type = "text" /\ b.text = TextOf(p)
    \/ b.type = "tool_use" /\ b.id[1] = p
    \/ b.type = "tool_result" /\ b.tool_use_id[1] = p
           /\ (b.content = <<ToolOutputOf(p)>> \/ "is_error" \in DOMAIN b)

OwnMessage(p, m) ==
    IF m.role = "user" /\ m.content = QueryOf(p) THEN TRUE
    ELSE /\ m.content /= QueryOf(3 - p)
         /\ \A i \in 1..Len(m.content) : OwnBlock(p, m.content[i])

\* Round r of thread p stopped on a raising tool.
FrameRoundFailed(f, r) ==
    \E j \in 1..Len(f.execs) : f.execs[j].round = r /\ ~f.execs[j].ok

C15_InvocationsIndependent ==
    /\ self_base_params = base_params
    /\ \A p \in DOMAIN frames :
          LET f == frames[p] IN
          /\ \A k \in 1..Len(f.calls) :
                LET c == f.calls[k] IN
                /\ \A key \in DOMAIN base_params : c[key] = base_params[key]
                /\ c.system = <<SYSTEM_PROMPT, "\n\nPrevious conversation:\n",
                                HistoryOf(p).val>>
                /\ c.messages[1] = [role |-> "user", content |-> QueryOf(p)]
                /\ \A i \in 1..Len(c.messages) : OwnMessage(p, c.messages[i])
                /\ ("tools" \in DOMAIN c) <=>
                      /\ Truthy(f.tools)
                      /\ k - 1 < MAX_TOOL_ROUNDS
                      /\ k > 1 => ~FrameRoundFailed(f, k - 1)
                /\ ("tools" \in DOMAIN c) => c.tools = f.tools.val
                /\ ("tool_choice" \in DOMAIN c) <=> ("tools" \in DOMAIN c)
          /\ \A i \in 1..Len(f.messages) : OwnMessage(p, f.messages[i])
          /\ f.pc = "done" =>
                LET last == f.replies[Len(f.replies)].resp.content IN
                f.outcome \in
                    {Returned(last[i].text) : i \in {n \in 1..Len(last) : last[n].type = "text"}}
                    \cup {Returned(FALLBACK)}
          /\ f.pc = "done" => f.outcome.value \in {TextOf(p), FALLBACK}
          /\ f.pc = "raised" =>
                IF f.replies[Len(f.replies)].raised
                THEN f.outcome = Raised(f.replies[Len(f.replies)].exc)
                ELSE /\ Len(f.execs) > 0
                     /\ ~f.execs[Len(f.execs)].ok
                     /\ f.execs[Len(f.execs)].id[1] = p
                     /\ f.outcome = Raised(f.execs[Len(f.execs)].val)

C15_Witness ==
    /\ frames[1].pc = "done"
    /\ Truthy(frames[1].tools)
    /\ Len(frames[1].calls) = 2
    /\ "tools" \in DOMAIN frames[1].calls[1]
    /\ frames[2].pc = "follow_up"
    /\ ~Truthy(frames[2].tools)
    /\ Len(frames[2].calls) = 1
    /\ "tools" \notin DOMAIN frames[2].calls[1]
    /\ Len(frames[2].execs) = 1
    /\ frames[1].outcome = Returned(TextOf(1))

\* C16: two queries in flight on one tool manager can interleave so that one
\* reads a citation written by the other's execute_tool call, and a query
\* that was at every moment of its flight the only query in flight on its
\* tool manager reads only citations that its own execute_tool calls wrote.
C16_OwnCitationsWhenNotShared ==
    \A c \in DOMAIN sessions :
        (sessions[c].pc \in {"read", "done"} /\ sessions[c].alone) =>
            \A i \in 1..Len(sessions[c].read) :
                sessions[c].read[i] \in sessions[c].made

\* Query c read a citation that query d wrote and c did not.
Misattributed(c, d) ==
    /\ c /= d
    /\ sessions[c].mgr = sessions[d].mgr
    /\ sessions[c].pc \in {"read", "done"}
    /\ \E i \in 1..Len(sessions[c].read) :
          /\ sessions[c].read[i] \notin sessions[c].made
          /\ sessions[c].read[i] \in sessions[d].made

\* C17: the initial messages.create call carries the tool definitions and
\* tool_choice auto exactly when the tools argument holds definitions (an
\* absent or empty tools argument holds none), and it never carries a
\* tool_choice without tools.
C17_InitialCallToolsIffSupplied ==
    Len(calls) >= 1 =>
        /\ calls[1].has_tools <=> (~tools.none /\ Len(tools.val) > 0)
        /\ calls[1].has_tools => (calls[1].tools = tools.val
                                  /\ calls[1].has_tool_choice
                                  /\ calls[1].tool_choice = "auto")
        /\ calls[1].has_tool_choice => calls[1].has_tools

C17_Witness ==
    /\ Len(calls) >= 1
    /\ tools = SomeList(<<"search_course_content">>)
    /\ calls[1].has_tools
    /\ calls[1].tools = <<"search_course_content">>
    /\ calls[1].tool_choice = "auto"

\* C18: whatever register_tool calls were made, get_tool_definitions()
\* returns one definition per registered name, in the order in which the
\* names were first registered, and for a name registered several times the
\* definition, and the tool execute_tool routes to, is the one registered
\* last.
DefinitionsMatch(defs, j) ==
    /\ Len(defs) = Cardinality(NamesBefore(j))
    /\ \A i \in 1..Len(defs) :
          /\ defs[i].name \in NamesBefore(j)
          /\ defs[i] = GetToolDefinition(
                          dlog[LatestRegistration(j, defs[i].name)].tool)
    /\ \A i, k \in 1..Len(defs) :
          i < k => FirstRegistration(j, defs[i].name)
                      < FirstRegistration(j, defs[k].name)

C18_DefinitionsFollowRegistrations ==
    /\ DefinitionsMatch(GetToolDefinitions(tool_registry), Len(dlog) + 1)
    /\ \A j \in 1..Len(dlog) :
          /\ dlog[j].op = "definitions" => DefinitionsMatch(dlog[j].returned, j)
          /\ (dlog[j].op = "execute" /\ dlog[j].name \in NamesBefore(j)) =>
                dlog[j].tool = dlog[LatestRegistration(j, dlog[j].name)].tool

C18_Witness ==
    /\ Len(dlog) = 4
    /\ dlog[1].tool = "search1"
    /\ dlog[2].tool = "outline"
    /\ dlog[3].tool = "search2"
    /\ dlog[4].op = "definitions"
    /\ dlog[4].returned = <<GetToolDefinition("search2"), GetToolDefinition("outline")>>

\* C19: for a SearchResults without error and with n > 0 documents the text
\* the search tool returns has n entries separated by blank lines, entry i
\* being the header of metadata[i], a line break and documents[i], and the
\* source list of the tool then has n citations, citation i carrying the
\* header of entry i without its brackets.
C19_EntriesPairedPositionally ==
    \A j \in 1..Len(dlog) :
        FoundDocuments(j) =>
            LET rs == dlog[j].st.results
                n == Len(rs.documents)
                entries == Split(dlog[j].result, "\n\n")
                cites == dlog[j].citations
            IN
            /\ Len(entries) = n
            /\ Len(cites) = n
            /\ dlog[j].wrote
            /\ j = Len(dlog) => last_sources[dlog[j].tool].list = cites
            /\ \A i \in 1..n :
                  LET meta == rs.metadata[i]
                      label == cites[i].label
                  IN
                  /\ entries[i] = <<"[">> \o label \o <<"]", "\n", rs.documents[i]>>
                  /\ label[1] = IF meta.course_title.none THEN "unknown"
                                ELSE meta.course_title.val
                  /\ IF meta.lesson_number.none THEN Len(label) = 1
                     ELSE /\ Len(label) = 3
                          /\ label[2] = " - Lesson "
                          /\ label[3] = ToStr(meta.lesson_number.val)

C19_Witness ==
    /\ Len(dlog) = 2
    /\ FoundDocuments(2)
    /\ Len(dlog[2].st.results.documents) = 2
    /\ dlog[2].st.results.documents[1] /= dlog[2].st.results.documents[2]
    /\ dlog[2].st.results.metadata[1].lesson_number = SomeInt(1)
    /\ dlog[2].st.results.metadata[2].lesson_number = SomeInt(2)
    /\ dlog[2].st.results.metadata[1].course_title = SomeStr("Intro")
    /\ last_sources["search1"].list[1].label = <<"Intro", " - Lesson ", "1">>
    /\ last_sources["search1"].list[2].label = <<"Intro", " - Lesson ", "2">>

\* C20: when the SearchResults of the store carries an error the search tool
\* returns exactly that error, also when the result is empty: the error wins
\* over the message for an empty result.
C20_ErrorReturnedVerbatim ==
    \A j \in 1..Len(dlog) :
        (/\ dlog[j].op = "execute"
         /\ dlog[j].tool \in {"search1", "search2"}
         /\ ~dlog[j].st.raises
         /\ Truthy(dlog[j].st.results.error)) =>
            /\ ~dlog[j].raised
            /\ dlog[j].result = <<dlog[j].st.results.error.val>>
            /\ dlog[j].result[1] /= "No relevant content found"

C20_Witness ==
    /\ Len(dlog) = 2
    /\ dlog[2].op = "execute"
    /\ Truthy(dlog[2].st.results.error)
    /\ Len(dlog[2].st.results.documents) = 0
    /\ Truthy(dlog[2].kw.course_name)
    /\ dlog[2].result = <<"No course found matching 'NonExistent'">>

\* The message history sent with backend call i.
HistoryAt(i) == calls[i].messages

\* C21: at every messages.create call the history starts with the user
\* message holding the query, the roles alternate user/assistant, the last
\* message is a user message, and the call that follows k rounds carries
\* 1 + 2k messages: the query, then per round the assistant message with the
\* content of the response and the user message with its tool results.
C21_TurnStructure ==
    \A i \in 1..Len(calls) :
        LET m == HistoryAt(i) IN
        /\ Len(m) = 1 + 2 * (i - 1)
        /\ m[1] = [role |-> "user", content |-> query]
        /\ \A j \in 1..Len(m) :
              m[j].role = IF j % 2 = 1 THEN "user" ELSE "assistant"
        /\ m[Len(m)].role = "user"
        /\ \A k \in 1..(i - 1) :
              /\ m[2 * k].content = ResponseOf(k).content
              /\ \A n \in 1..Len(m[2 * k + 1].content) :
                    m[2 * k + 1].content[n].type = "tool_result"

\* C22: at every messages.create call, every tool_use block of an assistant
\* message of the history has exactly one tool_result with its id in the
\* user message that follows that assistant message.
C22_EveryRequestAnswered ==
    \A i \in 1..Len(calls) :
        LET m == HistoryAt(i) IN
        \A j \in 1..Len(m) :
            m[j].role = "assistant" =>
                \A b \in 1..Len(m[j].content) :
                    m[j].content[b].type = "tool_use" =>
                        /\ j < Len(m)
                        /\ m[j + 1].role = "user"
                        /\ Cardinality({n \in 1..Len(m[j + 1].content) :
                              m[j + 1].content[n].tool_use_id
                                  = m[j].content[b].id}) = 1

\* The execute_tool calls of round r, in the order in which they were made.
RECURSIVE ExecSeqFrom(_, _)
ExecSeqFrom(r, j) ==
    IF j > Len(execs) THEN <<>>
    ELSE IF execs[j].round = r THEN <<j>> \o ExecSeqFrom(r, j + 1)
    ELSE ExecSeqFrom(r, j + 1)

\* The positions of the tool_use blocks of a content list, in order.
RECURSIVE ToolUsePositions(_, _)
ToolUsePositions(content, i) ==
    IF i > Len(content) THEN <<>>
    ELSE IF content[i].type = "tool_use"
         THEN <<i>> \o ToolUsePositions(content, i + 1)
         ELSE ToolUsePositions(content, i + 1)

\* C23: the execute_tool calls of one round follow the order of the tool_use
\* blocks of the response the round works on, none is skipped in between and
\* no messages.create call happens between two of them; at the next
\* messages.create call their tool_result blocks are the content, in the same
\* order, of one user message appended right after the assistant message.
C23_OneAtATimeInOrder ==
    \A r \in 1..nrounds :
        LET es == ExecSeqFrom(r, 1)
            content == ResponseOf(r).content
            tu == ToolUsePositions(content, 1)
        IN
        /\ Len(es) <= Len(tu)
        /\ \A n \in 1..Len(es) :
              /\ execs[es[n]].call = r
              /\ execs[es[n]].pos = tu[n]
              /\ execs[es[n]].id = content[tu[n]].id
              /\ execs[es[n]].name = content[tu[n]].name
              /\ execs[es[n]].input = content[tu[n]].input
        /\ \A n \in 1..(Len(es) - 1) : es[n + 1] = es[n] + 1
        /\ (Len(calls) > r /\ Len(es) > 0) =>
              LET before == HistoryAt(r)
                  after == HistoryAt(r + 1)
                  m == after[Len(after)]
              IN
              /\ Len(after) = Len(before) + 2
              /\ \A n \in 1..Len(before) : after[n] = before[n]
              /\ after[Len(after) - 1] = [role |-> "assistant", content |-> content]
              /\ m.role = "user"
              /\ Len(m.content) = Len(es)
              /\ \A n \in 1..Len(es) :
                    /\ m.content[n].type = "tool_result"
                    /\ m.content[n].tool_use_id = execs[es[n]].id
                    /\ \E c \in 1..Len(m.content[n].content) :
                          m.content[n].content[c] = execs[es[n]].val

C23_Witness ==
    /\ pc = "done"
    /\ Len(calls) = 2
    /\ Len(execs) = 2
    /\ execs[1].ok /\ execs[2].ok
    /\ execs[1].round = 1 /\ execs[2].round = 1
    /\ execs[1].pos = 1 /\ execs[2].pos = 2
    /\ Len(HistoryAt(2)) = 3
    /\ Len(HistoryAt(2)[3].content) = 2
    /\ HistoryAt(2)[3].content[1].tool_use_id = ToolId(1, 1)
    /\ HistoryAt(2)[3].content[2].tool_use_id = ToolId(1, 2)

\* C24 as stated: after an execute_tool call has raised, whatever it raised,
\* no other execute_tool call is made in the invocation: the round is over
\* (the tool_use blocks behind the failing one are skipped) and no later
\* round starts; the user message the failed round appended holds the
\* results of the blocks executed before the failure, in order, and the
\* error result as its last element.
C24_NoExecAfterFailure ==
    \A j \in 1..Len(execs) :
        ~execs[j].ok =>
            LET r == execs[j].round
                es == ExecSeqFrom(r, 1)
                m == messages[Len(messages)]
            IN
            /\ j = Len(execs)
            /\ nrounds = r
            /\ pc \notin {"loop", "tool_round"}
            /\ es[Len(es)] = j
            /\ m.role = "user"
            /\ Len(m.content) = Len(es)
            /\ \A n \in 1..Len(es) :
                  /\ m.content[n].type = "tool_result"
                  /\ m.content[n].tool_use_id = execs[es[n]].id
                  /\ n < Len(es) =>
                        /\ execs[es[n]].ok
                        /\ m.content[n] = OkResult(execs[es[n]], execs[es[n]].val)
            /\ m.content[Len(es)] = ErrorResult(execs[j], execs[j].val)
            /\ \A k \in (execs[j].call + 1)..Len(calls) : HistoryAt(k) = messages

\* C24 amended: after an execute_tool call has raised, no other execute_tool
\* call is made in the invocation. When it raised an Exception the round is
\* over, no later round starts, and the user message the failed round
\* appended holds the results of the blocks executed before the failure, in
\* order, and the error result as its last element; when it raised another
\* BaseException the invocation ends with it and the round appends no user
\* message.
C24_NoExecAfterCaughtFailure ==
    \A j \in 1..Len(execs) :
        /\ ~execs[j].ok => j = Len(execs) /\ nrounds = execs[j].round
        /\ Caught(j) =>
            LET r == execs[j].round
                es == ExecSeqFrom(r, 1)
                m == messages[Len(messages)]
            IN
            /\ j = Len(execs)
            /\ nrounds = r
            /\ pc \notin {"loop", "tool_round"}
            /\ es[Len(es)] = j
            /\ m.role = "user"
            /\ Len(m.content) = Len(es)
            /\ \A n \in 1..Len(es) :
                  /\ m.content[n].type = "tool_result"
                  /\ m.content[n].tool_use_id = execs[es[n]].id
                  /\ n < Len(es) =>
                        /\ execs[es[n]].ok
                        /\ m.content[n] = OkResult(execs[es[n]], execs[es[n]].val)
            /\ m.content[Len(es)] = ErrorResult(execs[j], execs[j].val)
            /\ \A k \in (execs[j].call + 1)..Len(calls) : HistoryAt(k) = messages
        /\ Interrupted(j) =>
            /\ messages[Len(messages)] =
                  [role |-> "assistant",
                   content |-> ResponseOf(execs[j].call).content]
            /\ Len(calls) = execs[j].call

C24_Witness ==
    /\ pc = "done"
    /\ Len(execs) = 1
    /\ ~execs[1].ok
    /\ execs[1].pos = 1
    /\ ToolUseCount(ResponseOf(1).content) = 2
    /\ Len(calls) = 2
    /\ ResponseOf(2).stop_reason = "tool_use"
    /\ ToolUseCount(ResponseOf(2).content) > 0
    /\ tool_manager
    /\ Len(messages[Len(messages)].content) = 1

\* C25: when the first response does not stop for tool use, or no tool
\* manager was passed (whatever the response asks for), the invocation makes
\* that one messages.create call, calls no tool, leaves the history at the
\* query message and returns the text of the first text block of that
\* response, or the fallback when it has none.
C25_DirectAnswer ==
    (/\ Len(replies) >= 1
     /\ ~replies[1].raised
     /\ (ResponseOf(1).stop_reason /= "tool_use" \/ ~tool_manager)) =>
        LET content == ResponseOf(1).content
            texts == {i \in 1..Len(content) : content[i].type = "text"}
        IN
        /\ Len(calls) = 1
        /\ Len(execs) = 0
        /\ nrounds = 0
        /\ messages = <<[role |-> "user", content |-> query]>>
        /\ HistoryAt(1) = messages
        /\ pc \in {"loop", "extract", "done"}
        /\ pc = "done" =>
              /\ outcome.kind = "return"
              /\ texts = {} => outcome.value = FALLBACK
              /\ texts /= {} =>
                    \E i \in texts :
                        /\ \A k \in texts : i <= k
                        /\ outcome.value = content[i].text

C25_Witness ==
    /\ pc = "done"
    /\ ~tool_manager
    /\ Truthy(tools)
    /\ ResponseOf(1).stop_reason = "tool_use"
    /\ Len(ResponseOf(1).content) = 2
    /\ ResponseOf(1).content[1].type = "tool_use"
    /\ ResponseOf(1).content[2].type = "text"
    /\ outcome = Returned("Hello!")
    /\ Len(calls) = 1

\* The citations written by the latest of the first n execute_tool calls of
\* the log that wrote any, the empty list when none did.
RECURSIVE CitationsUpTo(_)
CitationsUpTo(n) ==
    IF n = 0 THEN <<>>
    ELSE IF dlog[n].op = "execute" /\ dlog[n].wrote /\ Len(dlog[n].citations) > 0
         THEN dlog[n].citations
         ELSE CitationsUpTo(n - 1)

\* C26: while generate_response runs, the only calls made on the tool
\* manager are the execute_tool calls of the rounds: the registry is the one
\* the caller built, and nothing reads or clears the source lists. When it
\* has returned, the manager still holds the citations of the query; they are
\* what the caller reads, and they are gone only after the caller's
\* reset_sources().
C26_OnlyExecuteDuringGenerate ==
    /\ tool_registry = CallerRegistry
    /\ Len(dlog) >= Len(execs)
    /\ \A j \in 1..Len(execs) :
          /\ dlog[j].op = "execute"
          /\ dlog[j].name = execs[j].name
          /\ dlog[j].raised = ~execs[j].ok
          /\ dlog[j].result = execs[j].val
    /\ pc /= "done" => Len(dlog) = Len(execs)
    /\ \A j \in (Len(execs) + 1)..Len(dlog) :
          dlog[j].op = IF j = Len(execs) + 1 THEN "last_sources" ELSE "reset"
    /\ Len(dlog) <= Len(execs) + 1 =>
          GetLastSources(tool_registry, last_sources) = CitationsUpTo(Len(execs))
    /\ Len(dlog) > Len(execs) =>
          dlog[Len(execs) + 1].returned = CitationsUpTo(Len(execs))
    /\ Len(dlog) > Len(execs) + 1 =>
          GetLastSources(tool_registry, last_sources) = <<>>

C26_Witness ==
    /\ pc = "done"
    /\ Len(execs) = 2
    /\ Len(dlog) = 4
    /\ dlog[1].wrote
    /\ Len(dlog[1].citations) = MaxDocs
    /\ dlog[2].name = "nonexistent_tool"
    /\ dlog[3].op = "last_sources"
    /\ dlog[3].returned = dlog[1].citations
    /\ dlog[4].op = "reset"
    /\ GetLastSources(tool_registry, last_sources) = <<>>

\* C27: every messages.create call of one invocation carries the same
\* system value: SYSTEM_PROMPT alone when conversation_history is None or
\* the empty string, and SYSTEM_PROMPT followed by the "Previous
\* conversation" block with the history otherwise; the follow-up calls carry
\* what the initial call carried.
C27_SameSystemPrompt ==
    \A i \in 1..Len(calls) :
        /\ calls[i].system = calls[1].system
        /\ (history.none \/ history.val = "") =>
              calls[i].system = <<SYSTEM_PROMPT>>
        /\ (~history.none /\ history.val /= "") =>
              /\ Len(calls[i].system) = 3
              /\ calls[i].system[1] = SYSTEM_PROMPT
              /\ calls[i].system[2] = "\n\nPrevious conversation:\n"
              /\ calls[i].system[3] = history.val

C27_Witness ==
    /\ pc = "done"
    /\ Len(calls) = 3
    /\ history = SomeStr("User: hi")
    /\ calls[1].system = <<SYSTEM_PROMPT, "\n\nPrevious conversation:\n", "User: hi">>
    /\ calls[3].system = calls[1].system
    /\ calls[2].has_tools
    /\ ~calls[3].has_tools

\* C28: the history only grows at its end: what one messages.create call
\* carried is, message for message, the beginning of what the next call
\* carries and of the history the invocation holds afterwards.
C28_HistoryOnlyGrows ==
    /\ \A i \in 1..(Len(calls) - 1) :
          /\ Len(HistoryAt(i)) <= Len(HistoryAt(i + 1))
          /\ \A n \in 1..Len(HistoryAt(i)) : HistoryAt(i + 1)[n] = HistoryAt(i)[n]
    /\ \A i \in 1..Len(calls) :
          /\ Len(HistoryAt(i)) <= Len(messages)
          /\ \A n \in 1..Len(HistoryAt(i)) : messages[n] = HistoryAt(i)[n]

C28_Witness ==
    /\ pc = "done"
    /\ Len(calls) = 3
    /\ Len(HistoryAt(1)) = 1
    /\ Len(HistoryAt(2)) = 3
    /\ Len(HistoryAt(3)) = 5
    /\ HistoryAt(3)[2] = HistoryAt(2)[2]
    /\ HistoryAt(3)[3] = HistoryAt(2)[3]
    /\ HistoryAt(3)[4].content /= HistoryAt(3)[2].content
    /\ ~execs[Len(execs)].ok

\* C29: an invocation that has ended, by returning or on a raising backend
\* call, made one messages.create call more than it ran rounds: round r works
\* on the response of call r, which stopped for tool use, and is followed by
\* call r + 1 and by no other call before the next round.
C29_CallsAreRoundsPlusOne ==
    /\ (Terminated /\ \A j \in 1..Len(execs) : ~Interrupted(j)) =>
          Len(calls) = nrounds + 1
    /\ pc \in {"tool_round", "follow_up"} => Len(calls) = nrounds
    /\ pc \in {"loop", "extract"} => Len(calls) = nrounds + 1
    /\ \A r \in 1..nrounds :
          /\ r <= Len(replies)
          /\ ~replies[r].raised
          /\ ResponseOf(r).stop_reason = "tool_use"
    /\ \A j \in 1..Len(execs) : execs[j].call = execs[j].round

C29_Witness ==
    /\ pc = "done"
    /\ nrounds = 2
    /\ Len(calls) = 3
    /\ ResponseOf(1).stop_reason = "tool_use"
    /\ ResponseOf(2).stop_reason = "tool_use"
    /\ ResponseOf(3).stop_reason = "end_turn"
    /\ outcome = Returned("Hello!")

====
